---- MODULE Spec2Model ----
(***************************************************************************)
(* Recording-and-transcription pipeline of ai-notetaker.                   *)
(*   streaming variant      src/App.tsx lines 1-775                        *)
(*   backend-API variants   src/App.tsx lines 776-1237,                    *)
(*                          src/unnamed/part_002 lines 1-612               *)
(*                                                                         *)
(* The browser runs one task at a time.  An action of this module is one   *)
(* task, run to the next real suspension point of the handler (a store     *)
(* transaction, getUserMedia, an external call, a timer).  A continuation  *)
(* that waits only for an already resolved promise (the handle of openDB)  *)
(* runs in the microtask checkpoint of the same task, so the transaction   *)
(* of an addAudioChunk / clearAudioChunks / getAllAudioChunks call is      *)
(* created in the task that makes the call.  IndexedDB runs transactions   *)
(* on one object store in the order of their creation: txQueue is that     *)
(* order.  The tasks of MediaRecorder (dataavailable, stop) share one task *)
(* source and run in the order they were queued.                           *)
(***************************************************************************)
EXTENDS Integers, Sequences, FiniteSets, TLC

\* ---------------------------------------------------------------- bounds
MaxSessions  == 2     \* toggleRecording start invocations, all runs
SoloSessions == 1     \* the same, in the specifications named Solo
MaxChunks    == 1     \* timeslice fragments one recorder emits
MaxCrashes   == 1     \* process terminations
MaxRefines   == 1     \* handleRefineTranscript invocations, all runs
MaxRefineLen == 5     \* characters of a refined text

\* ------------------------------------------------------ program constants
timeslice          == 10   \* mediaRecorderRef.current.start(10000), seconds
chunkSizeInSeconds == 60   \* window of the chunked loops, seconds

Sessions == 1..MaxSessions
Events   == 1..(MaxChunks + 1)     \* timeslice events and the final one

\* Text is a sequence of characters.
Blank(c)        == c \in {" ", "\n"}
TrimEmpty(s)    == \A i \in 1..Len(s) : Blank(s[i])
PlaceholderText == <<"#", "#">>     \* '（無音または認識不能区間）'
ErrorText       == <<"!">>          \* "[エラー]"
ReadyMessage    == "ready"          \* 'AI準備完了'

\* Texts the external model may return for one call.
ServiceTexts == {<<>>, <<"a">>}

\* Texts the external model may return for one refine call.
Chars == {"a", " ", "\n"}
RefinedTexts == UNION {[1..n -> Chars] : n \in 0..MaxRefineLen}

\* Durations (seconds) decodeAudioData may report: no audio, less than a
\* window, a multiple of the window, more than two windows.
Durations == {0, 45, 120, 130}

\* Fragments left in the object store by an earlier run of the page.
Orphan(i)  == [sess |-> 0, idx |-> i]
Orphans(k) == [i \in 1..k |-> Orphan(i)]

VARIABLES
    \* React state of App
    isRecording, showStopConfirm, isTranscribing, isLoadingAI,
    loadingMessage, transcript, summary, recoveryInfo, modalInfo,
    activeMicrophone,
    \* refs
    mediaRecorderRef, audioChunksRef, lastTranscriptTextRef,
    recordingStartTimeRef,
    \* environment and suspended handlers
    store,          \* committed content of the audioChunks object store
    txQueue,        \* transactions created and not yet complete, in order
    recorders,      \* MediaRecorder objects created by toggleRecording
    starts,         \* toggleRecording start invocations
    da,             \* ondataavailable handlers of the streaming variant
    checkPc,        \* checkForCrashedData
    startupStream,  \* the stream getAudioDevices asks for at the mount
    recov,          \* handleProcessRecoveredData
    file,           \* handleFileChange
    refine,         \* handleRefineTranscript calls in flight: the transcript
                    \* each one has captured
    api,            \* transcribeAudioWithApi calls in flight (backend)
    now,            \* Date.now(), seconds
    nextSess, crashes, refines,
    hist            \* history, read by the properties only

uiVars  == <<isRecording, showStopConfirm, isTranscribing, isLoadingAI,
             loadingMessage, transcript, summary, recoveryInfo, modalInfo,
             activeMicrophone>>
refVars == <<mediaRecorderRef, audioChunksRef, lastTranscriptTextRef,
             recordingStartTimeRef>>
envVars == <<store, txQueue, recorders, starts, da, checkPc>>
opVars  == <<recov, file, refine, api>>
runVars == <<now, nextSess, crashes, refines>>

vars == <<uiVars, refVars, envVars, opVars, runVars, hist, startupStream>>

NoRecorder == [state |-> "none", stopTask |-> FALSE, tracksLive |-> FALSE,
               ticks |-> 0, after |-> {}]
NoLoop     == [pc |-> "idle", n |-> 0, duration |-> 0, currentTime |-> 0]
NoModal    == [show |-> FALSE, message |-> "none"]
NoOffer    == [show |-> FALSE, chunkCount |-> 0]

\* History.  boot is taken when the previous run ended.
NoBoot == [expect |-> 0, resolved |-> FALSE]
NoRun  == [windows |-> <<>>, duration |-> -1, ended |-> FALSE,
           failedAt |-> -1]
NoRefined == [n |-> 0, text |-> <<>>]
NoPrior == [taken |-> FALSE, store |-> <<>>, accumulator |-> <<>>,
            transcript |-> <<>>, summary |-> "none"]
NoHist == [boot |-> NoBoot,
           adds |-> 0,             \* addAudioChunk calls complete while recording
           cleanStopped |-> FALSE, \* a stop was confirmed, no start since
           stopTranscribed |-> FALSE, \* and its transcription has returned
           resolved |-> FALSE,     \* offer resolved, no fragment stored since
           fileRun |-> NoRun,      \* the last run of handleFileChange
           recovRun |-> NoRun,     \* the same, handleProcessRecoveredData
           refined |-> NoRefined,  \* the last refine call that returned
           addFailed |-> [sess |-> 0, idx |-> 0],
                                   \* the last fragment whose add failed
           prior |-> [s \in Sessions |-> NoPrior],
                                   \* state at the call of a start invocation
                                   \* that has not ended
           priorSummary |-> "none",
                                   \* summary at the last call of
                                   \* generateSummary
           prefixOk |-> TRUE,      \* every text returned to a streaming tick
                                   \* since the last start began with the
                                   \* text returned before it
           owner |-> 0]            \* what emptied the transcript last: the
                                   \* start invocation s, a file chosen (-1),
                                   \* nothing yet (0)

\* ------------------------------------------------------------- dbManager
Tx(op, chunk, waiter) == [op |-> op, chunk |-> chunk, waiter |-> waiter]
NoChunk  == [sess |-> 0, idx |-> 0]
NoWaiter == <<"none">>

\* A transaction that is created ahead of the ones that wait.
addAudioChunkAhead(q, chunk, waiter) == <<Tx("add", chunk, waiter)>> \o q

\* addAudioChunk / clearAudioChunks / getAllAudioChunks: the transaction is
\* created and queued; its completion resumes the waiter.
addAudioChunk(q, chunk, waiter) == Append(q, Tx("add", chunk, waiter))
clearAudioChunks(q, waiter)     == Append(q, Tx("clear", NoChunk, waiter))
getAllAudioChunks(q, waiter)    == Append(q, Tx("getAll", NoChunk, waiter))

\* Effect of a complete transaction on the object store.
ApplyTx(s, tx) ==
    CASE tx.op = "add"   -> Append(s, tx.chunk)
      [] tx.op = "clear" -> <<>>
      [] OTHER           -> s

\* -------------------------------------------------- external transcription
\* transcribeAndIdentifySpeakers / transcribeFileRaw: empty or blank text is
\* replaced by the placeholder.
Normalize(text) == IF TrimEmpty(text) THEN PlaceholderText ELSE text

Entry(time, text) == [time |-> time, text |-> text]

\* A substring that starts over at the first character.
SubstringWhole(full, from) == full

\* fullTranscript.substring(lastTranscriptTextRef.current.length)
Substring(full, from) == SubSeq(full, from + 1, Len(full))

\* The text `full` begins with the text `last`.
IsPrefix(last, full) ==
    /\ Len(last) <= Len(full)
    /\ SubSeq(full, 1, Len(last)) = last

\* Texts the external model may return to the ticks of one recording that
\* grows: nothing, a word, the word and a blank, the word and a second one.
StreamTexts == {<<>>, <<"a">>, <<"a", " ">>, <<"a", " ", "b">>}

\* ------------------------------------------------------------------ Init
\* State after App is mounted in a fresh page: the mount effect has called
\* checkForCrashedData and set the loading message to ready.
Boot ==
    /\ isRecording = FALSE
    /\ showStopConfirm = FALSE
    /\ isTranscribing = FALSE
    /\ isLoadingAI = FALSE
    /\ loadingMessage = ReadyMessage
    /\ transcript = <<>>
    /\ summary = "none"
    /\ recoveryInfo = NoOffer
    /\ modalInfo = NoModal
    /\ activeMicrophone = "unchecked"
    /\ mediaRecorderRef = 0
    /\ audioChunksRef = <<>>
    /\ lastTranscriptTextRef = <<>>
    /\ recordingStartTimeRef = 0
    /\ txQueue = getAllAudioChunks(<<>>, <<"check">>)
    /\ recorders = [s \in Sessions |-> NoRecorder]
    /\ starts = [s \in Sessions |-> "none"]
    /\ da = [s \in Sessions |-> [e \in Events |-> "idle"]]
    /\ checkPc = "pending"
    /\ startupStream = "pending"
    /\ recov = NoLoop
    /\ file = NoLoop
    /\ refine = <<>>
    /\ api = <<>>
    /\ now = 0
    /\ nextSess = 1
    /\ crashes = 0
    /\ refines = 0
    /\ hist = NoHist

\* The object store holds what an earlier run of the page left in it.
Init ==
    /\ Boot
    /\ \E k \in 0..(MaxChunks + 1) : store = Orphans(k)

\* --------------------------------------------------------- getAudioDevices
\* getUserMedia({audio: true}) of the mount effect resolves: the devices are
\* listed; the stream is not kept and none of its tracks is stopped.
getAudioDevicesResolve ==
    /\ startupStream = "pending"
    /\ startupStream' = "live"
    /\ UNCHANGED <<uiVars, refVars, envVars, opVars, runVars, hist>>

\* getUserMedia({audio: true}) of the mount effect rejects: the catch block
\* logs.
getAudioDevicesReject ==
    /\ startupStream = "pending"
    /\ startupStream' = "none"
    /\ UNCHANGED <<uiVars, refVars, envVars, opVars, runVars, hist>>

\* --------------------------------------------------------- toggleRecording
\* toggleRecording with isRecording true: only the confirmation is asked.
RequestStop ==
    /\ isRecording
    /\ loadingMessage = ReadyMessage
    /\ showStopConfirm' = TRUE
    /\ UNCHANGED <<isRecording, isTranscribing, isLoadingAI, loadingMessage,
                   transcript, summary, recoveryInfo, modalInfo, refVars,
                   envVars, opVars, runVars, hist, activeMicrophone,
                   startupStream>>

\* toggleRecording with isRecording false, up to `await clearAudioChunks()`.
ToggleStart(limit) ==
    /\ ~isRecording
    /\ loadingMessage = ReadyMessage
    /\ nextSess <= limit
    /\ nextSess <= MaxSessions
    /\ starts' = [starts EXCEPT ![nextSess] = "clear"]
    /\ txQueue' = clearAudioChunks(txQueue, <<"start", nextSess>>)
    /\ nextSess' = nextSess + 1
    /\ hist' = [hist EXCEPT !.cleanStopped = FALSE,
                             !.stopTranscribed = FALSE,
                             !.prior[nextSess] =
                                 [taken |-> TRUE, store |-> store,
                                  accumulator |-> audioChunksRef,
                                  transcript |-> transcript,
                                  summary |-> summary]]
    /\ UNCHANGED <<uiVars, refVars, store, recorders, da, checkPc, opVars,
                   now, crashes, refines, startupStream>>

\* The clear of a start invocation is complete: getUserMedia is requested.
CommitStartClear ==
    /\ txQueue # <<>>
    /\ Head(txQueue).waiter[1] = "start"
    /\ starts' = [starts EXCEPT ![Head(txQueue).waiter[2]] = "gum"]
    /\ store' = ApplyTx(store, Head(txQueue))
    /\ txQueue' = Tail(txQueue)
    /\ UNCHANGED <<uiVars, refVars, recorders, da, checkPc, opVars, runVars,
                   hist, startupStream>>

\* new MediaRecorder(stream) and start(10000): the recorder's tasks come
\* after the stop tasks that are already queued.
NewRecorder ==
    [state |-> "recording", stopTask |-> FALSE, tracksLive |-> TRUE,
     ticks |-> 0, after |-> {r \in Sessions : recorders[r].stopTask}]

\* getUserMedia resolves: the rest of the try block runs to the end.
GumResolve(s) ==
    /\ starts[s] = "gum"
    /\ starts' = [starts EXCEPT ![s] = "none"]
    /\ activeMicrophone' = "label"
    /\ audioChunksRef' = <<>>
    /\ lastTranscriptTextRef' = <<>>
    /\ mediaRecorderRef' = s
    /\ recorders' = [recorders EXCEPT ![s] = NewRecorder]
    /\ transcript' = <<>>
    /\ summary' = "none"
    /\ isRecording' = TRUE
    /\ recordingStartTimeRef' = now
    /\ hist' = [hist EXCEPT !.adds = IF isRecording THEN @ ELSE 0,
                             !.prior[s] = NoPrior,
                             !.prefixOk = TRUE,
                             !.owner = s]
    /\ UNCHANGED <<showStopConfirm, isTranscribing, isLoadingAI,
                   loadingMessage, recoveryInfo, modalInfo, store, txQueue,
                   da, checkPc, opVars, runVars, startupStream>>

\* The catch block of toggleRecording: the error is logged and the
\* microphone label says that access was denied.
ToggleCatch ==
    /\ activeMicrophone' = "denied"
    /\ UNCHANGED <<isRecording, showStopConfirm, isTranscribing, isLoadingAI,
                   loadingMessage, transcript, summary, recoveryInfo,
                   modalInfo>>

\* getUserMedia rejects: the catch block.
GumReject(s) ==
    /\ starts[s] = "gum"
    /\ starts' = [starts EXCEPT ![s] = "none"]
    /\ ToggleCatch
    /\ hist' = [hist EXCEPT !.prior[s] = NoPrior]
    /\ UNCHANGED <<refVars, store, txQueue, recorders, da, checkPc, opVars,
                   runVars, startupStream>>

\* ------------------------------------------------------- ondataavailable
\* The part of ondataavailable after the fragment is stored (or skipped):
\* the accumulator is read again; an empty one returns, otherwise the call
\* to transcribeAndIdentifySpeakers is issued.
AfterAdd(s, e) ==
    IF audioChunksRef' = <<>>
    THEN /\ da' = [da EXCEPT ![s][e] = "idle"]
         /\ UNCHANGED isTranscribing
    ELSE /\ da' = [da EXCEPT ![s][e] = "call"]
         /\ isTranscribing' = TRUE

\* A timeslice has elapsed on a running recorder: ondataavailable with a
\* fragment of non-zero size, up to `await dbManager.addAudioChunk(e.data)`.
DataAvailable(s) ==
    /\ recorders[s].state = "recording"
    /\ recorders[s].after = {}
    /\ recorders[s].ticks < MaxChunks
    /\ LET e == recorders[s].ticks + 1
           chunk == [sess |-> s, idx |-> e] IN
         /\ audioChunksRef' = Append(audioChunksRef, chunk)
         /\ txQueue' = addAudioChunk(txQueue, chunk, <<"da", s, e>>)
         /\ da' = [da EXCEPT ![s][e] = "add"]
    /\ recorders' = [recorders EXCEPT ![s].ticks = @ + 1]
    /\ now' = now + timeslice
    /\ hist' = [hist EXCEPT !.resolved = FALSE]
    /\ UNCHANGED <<uiVars, mediaRecorderRef, lastTranscriptTextRef,
                   recordingStartTimeRef, store, starts, checkPc, opVars,
                   nextSess, crashes, refines, startupStream>>

\* The add of an ondataavailable handler is complete: the handler resumes.
CommitAdd ==
    /\ txQueue # <<>>
    /\ Head(txQueue).waiter[1] = "da"
    /\ store' = ApplyTx(store, Head(txQueue))
    /\ txQueue' = Tail(txQueue)
    /\ UNCHANGED audioChunksRef
    /\ AfterAdd(Head(txQueue).waiter[2], Head(txQueue).waiter[3])
    /\ hist' = [hist EXCEPT !.adds = IF isRecording THEN @ + 1 ELSE @]
    /\ UNCHANGED <<isRecording, showStopConfirm, isLoadingAI, loadingMessage,
                   transcript, summary, recoveryInfo, modalInfo,
                   mediaRecorderRef, lastTranscriptTextRef,
                   recordingStartTimeRef, recorders, starts, checkPc, opVars,
                   runVars, activeMicrophone, startupStream>>

\* onstop: the download blob is built, the tracks are stopped and
\* clearAudioChunks is called un-awaited.
onstop(q) == clearAudioChunks(q, NoWaiter)

\* The task queued by MediaRecorder.stop(): the final dataavailable event
\* (its fragment may be empty), then the stop event.
StopTask(s, nonEmpty) ==
    /\ recorders[s].state = "inactive"
    /\ recorders[s].stopTask
    /\ recorders[s].after = {}
    /\ LET e == recorders[s].ticks + 1
           chunk == [sess |-> s, idx |-> e] IN
         IF nonEmpty
         THEN /\ audioChunksRef' = Append(audioChunksRef, chunk)
              /\ txQueue' = onstop(addAudioChunk(txQueue, chunk, <<"da", s, e>>))
              /\ da' = [da EXCEPT ![s][e] = "add"]
              /\ UNCHANGED isTranscribing
         ELSE /\ UNCHANGED audioChunksRef
              /\ txQueue' = onstop(txQueue)
              /\ AfterAdd(s, e)
    /\ recorders' = [r \in Sessions |->
           IF r = s
           THEN [recorders[r] EXCEPT !.stopTask = FALSE, !.tracksLive = FALSE]
           ELSE [recorders[r] EXCEPT !.after = @ \ {s}]]
    /\ hist' = [hist EXCEPT !.resolved = IF nonEmpty THEN FALSE ELSE @]
    /\ UNCHANGED <<isRecording, showStopConfirm, isLoadingAI, loadingMessage,
                   transcript, summary, recoveryInfo, modalInfo,
                   mediaRecorderRef, lastTranscriptTextRef,
                   recordingStartTimeRef, store, starts, checkPc, opVars,
                   runVars, activeMicrophone, startupStream>>

\* transcribeAndIdentifySpeakers returns text: the delta beyond the last
\* known transcript is appended when it is not blank.
TranscribeReturn(s, e, text) ==
    /\ da[s][e] = "call"
    /\ LET fullTranscript == Normalize(text)
           newText == Substring(fullTranscript, Len(lastTranscriptTextRef))
           elapsedTime == now - recordingStartTimeRef IN
         /\ transcript' = IF ~TrimEmpty(newText)
                          THEN Append(transcript, Entry(elapsedTime, newText))
                          ELSE transcript
         /\ lastTranscriptTextRef' = fullTranscript
         /\ hist' = [hist EXCEPT !.prefixOk =
                @ /\ IsPrefix(lastTranscriptTextRef, fullTranscript)]
    /\ isTranscribing' = FALSE
    /\ da' = [da EXCEPT ![s][e] = "idle"]
    /\ UNCHANGED <<isRecording, showStopConfirm, isLoadingAI, loadingMessage,
                   summary, recoveryInfo, modalInfo, mediaRecorderRef,
                   audioChunksRef, recordingStartTimeRef, store, txQueue,
                   recorders, starts, checkPc, opVars, runVars,
                   activeMicrophone, startupStream>>

\* As TranscribeFail, but the last known transcript is forgotten.
TranscribeFailForgets(s, e) ==
    /\ da[s][e] = "call"
    /\ transcript' = Append(transcript,
                            Entry(now - recordingStartTimeRef, ErrorText))
    /\ lastTranscriptTextRef' = <<>>
    /\ isTranscribing' = FALSE
    /\ da' = [da EXCEPT ![s][e] = "idle"]
    /\ UNCHANGED <<isRecording, showStopConfirm, isLoadingAI, loadingMessage,
                   summary, recoveryInfo, modalInfo, mediaRecorderRef,
                   audioChunksRef, recordingStartTimeRef, store, txQueue,
                   recorders, starts, checkPc, opVars, runVars, hist,
                   activeMicrophone, startupStream>>

\* transcribeAndIdentifySpeakers throws: an error entry is appended.
TranscribeFail(s, e) ==
    /\ da[s][e] = "call"
    /\ transcript' = Append(transcript,
                            Entry(now - recordingStartTimeRef, ErrorText))
    /\ isTranscribing' = FALSE
    /\ da' = [da EXCEPT ![s][e] = "idle"]
    /\ UNCHANGED <<isRecording, showStopConfirm, isLoadingAI, loadingMessage,
                   summary, recoveryInfo, modalInfo, refVars, store, txQueue,
                   recorders, starts, checkPc, opVars, runVars, hist,
                   activeMicrophone, startupStream>>

\* ------------------------------------------------------ handleConfirmStop
\* mediaRecorderRef.current.stop(): the recorder is inactive at once, its
\* final events come in a queued task.
StopRecorder(rs, r) ==
    [rs EXCEPT ![r].state = "inactive", ![r].stopTask = TRUE]

\* A confirm button that leaves the confirmation open.
handleConfirmStopKeeps ==
    /\ showStopConfirm
    /\ IF mediaRecorderRef # 0 /\ recorders[mediaRecorderRef].state = "recording"
       THEN /\ recorders' = StopRecorder(recorders, mediaRecorderRef)
            /\ txQueue' = clearAudioChunks(txQueue, NoWaiter)
            /\ hist' = [hist EXCEPT !.cleanStopped = TRUE]
       ELSE UNCHANGED <<recorders, txQueue, hist>>
    /\ isRecording' = FALSE
    /\ UNCHANGED <<showStopConfirm, isTranscribing, isLoadingAI,
                   loadingMessage, transcript, summary, recoveryInfo,
                   modalInfo, refVars, store, starts, da, checkPc, opVars,
                   runVars, activeMicrophone, startupStream>>

\* handleConfirmStop: the recorder in the ref is stopped when it records,
\* the store is cleared un-awaited, the flags are reset.
handleConfirmStop ==
    /\ showStopConfirm
    /\ IF mediaRecorderRef # 0 /\ recorders[mediaRecorderRef].state = "recording"
       THEN /\ recorders' = StopRecorder(recorders, mediaRecorderRef)
            /\ txQueue' = clearAudioChunks(txQueue, NoWaiter)
            /\ hist' = [hist EXCEPT !.cleanStopped = TRUE]
       ELSE UNCHANGED <<recorders, txQueue, hist>>
    /\ isRecording' = FALSE
    /\ showStopConfirm' = FALSE
    /\ UNCHANGED <<isTranscribing, isLoadingAI, loadingMessage, transcript,
                   summary, recoveryInfo, modalInfo, refVars, store, starts,
                   da, checkPc, opVars, runVars, activeMicrophone,
                   startupStream>>

\* A cancel button that also leaves the recording state.
CancelStopLeaves ==
    /\ showStopConfirm
    /\ showStopConfirm' = FALSE
    /\ isRecording' = FALSE
    /\ UNCHANGED <<isTranscribing, isLoadingAI, loadingMessage, transcript,
                   summary, recoveryInfo, modalInfo, refVars, envVars, opVars,
                   runVars, hist, activeMicrophone, startupStream>>

\* The cancel button of the stop confirmation.
CancelStop ==
    /\ showStopConfirm
    /\ showStopConfirm' = FALSE
    /\ UNCHANGED <<isRecording, isTranscribing, isLoadingAI, loadingMessage,
                   transcript, summary, recoveryInfo, modalInfo, refVars,
                   envVars, opVars, runVars, hist, activeMicrophone,
                   startupStream>>

\* A transaction nobody awaits is complete.
CommitPlain ==
    /\ txQueue # <<>>
    /\ Head(txQueue).waiter = NoWaiter
    /\ store' = ApplyTx(store, Head(txQueue))
    /\ txQueue' = Tail(txQueue)
    /\ hist' = [hist EXCEPT !.adds =
           IF Head(txQueue).op = "add" /\ isRecording THEN @ + 1 ELSE @]
    /\ UNCHANGED <<uiVars, refVars, recorders, starts, da, checkPc, opVars,
                   runVars, startupStream>>

\* ------------------------------------------------- device and store faults
\* new MediaRecorder(stream, {mimeType}) throws: the stream is acquired, the
\* refs are reset, the catch block only reports the microphone.
RecorderFail(s) ==
    /\ starts[s] = "gum"
    /\ starts' = [starts EXCEPT ![s] = "none"]
    /\ audioChunksRef' = <<>>
    /\ lastTranscriptTextRef' = <<>>
    /\ recorders' = [recorders EXCEPT ![s].tracksLive = TRUE]
    /\ ToggleCatch
    /\ hist' = [hist EXCEPT !.prior[s] = NoPrior]
    /\ UNCHANGED <<mediaRecorderRef, recordingStartTimeRef, store, txQueue,
                   da, checkPc, opVars, runVars, startupStream>>

\* start(10000) throws: the try block has run up to it, the recorder is
\* inactive.
StartFail(s) ==
    /\ starts[s] = "gum"
    /\ starts' = [starts EXCEPT ![s] = "none"]
    /\ audioChunksRef' = <<>>
    /\ lastTranscriptTextRef' = <<>>
    /\ mediaRecorderRef' = s
    /\ recorders' = [recorders EXCEPT ![s] =
                        [NewRecorder EXCEPT !.state = "inactive"]]
    /\ transcript' = <<>>
    /\ summary' = "none"
    /\ isRecording' = TRUE
    /\ activeMicrophone' = "denied"
    /\ recordingStartTimeRef' = now
    /\ hist' = [hist EXCEPT !.adds = IF isRecording THEN @ ELSE 0,
                             !.prior[s] = NoPrior,
                             !.prefixOk = TRUE,
                             !.owner = s]
    /\ UNCHANGED <<showStopConfirm, isTranscribing, isLoadingAI,
                   loadingMessage, recoveryInfo, modalInfo, store, txQueue,
                   da, checkPc, opVars, runVars, startupStream>>

\* The clear of a start invocation fails: clearAudioChunks rejects inside
\* the try block of toggleRecording, the catch block runs.
StartClearFail ==
    /\ txQueue # <<>>
    /\ Head(txQueue).waiter[1] = "start"
    /\ starts' = [starts EXCEPT ![Head(txQueue).waiter[2]] = "none"]
    /\ txQueue' = Tail(txQueue)
    /\ ToggleCatch
    /\ hist' = [hist EXCEPT !.prior[Head(txQueue).waiter[2]] = NoPrior]
    /\ UNCHANGED <<refVars, store, recorders, da, checkPc, opVars, runVars,
                   startupStream>>

\* The input device is removed: the tracks of the stream end, the recorder
\* is inactive at once and its final events come in a queued task.
DeviceLost(s) ==
    /\ recorders[s].state = "recording"
    /\ recorders' = StopRecorder(recorders, s)
    /\ UNCHANGED <<uiVars, refVars, store, txQueue, starts, da, checkPc,
                   opVars, runVars, hist, startupStream>>

\* A failed add that also ends the recording.
AddFailAborts ==
    /\ txQueue # <<>>
    /\ Head(txQueue).op = "add"
    /\ Head(txQueue).waiter[1] = "da"
    /\ txQueue' = Tail(txQueue)
    /\ da' = [da EXCEPT ![Head(txQueue).waiter[2]][Head(txQueue).waiter[3]] =
                 "idle"]
    /\ isRecording' = FALSE
    /\ hist' = [hist EXCEPT !.addFailed = Head(txQueue).chunk]
    /\ UNCHANGED <<showStopConfirm, isTranscribing, isLoadingAI,
                   loadingMessage, transcript, summary, recoveryInfo,
                   modalInfo, refVars, store, recorders, starts, checkPc,
                   opVars, runVars, activeMicrophone, startupStream>>

\* The add of an ondataavailable handler fails: addAudioChunk rejects, the
\* await is outside the try block, the handler ends there.
AddFail ==
    /\ txQueue # <<>>
    /\ Head(txQueue).op = "add"
    /\ Head(txQueue).waiter[1] = "da"
    /\ txQueue' = Tail(txQueue)
    /\ da' = [da EXCEPT ![Head(txQueue).waiter[2]][Head(txQueue).waiter[3]] =
                 "idle"]
    /\ hist' = [hist EXCEPT !.addFailed = Head(txQueue).chunk]
    /\ UNCHANGED <<uiVars, refVars, store, recorders, starts, checkPc,
                   opVars, runVars, startupStream>>

\* ----------------------------------------------------------- process exit
\* The tab crashes or is reloaded and App is mounted again: the state of
\* the page is lost, transactions that are not complete are lost, the
\* object store persists.  The mount effect calls checkForCrashedData.
Crash ==
    /\ crashes < MaxCrashes
    /\ crashes' = crashes + 1
    /\ isRecording' = FALSE
    /\ showStopConfirm' = FALSE
    /\ isTranscribing' = FALSE
    /\ isLoadingAI' = FALSE
    /\ loadingMessage' = ReadyMessage
    /\ transcript' = <<>>
    /\ summary' = "none"
    /\ recoveryInfo' = NoOffer
    /\ modalInfo' = NoModal
    /\ activeMicrophone' = "unchecked"
    /\ mediaRecorderRef' = 0
    /\ audioChunksRef' = <<>>
    /\ lastTranscriptTextRef' = <<>>
    /\ recordingStartTimeRef' = 0
    /\ txQueue' = getAllAudioChunks(<<>>, <<"check">>)
    /\ recorders' = [s \in Sessions |-> NoRecorder]
    /\ starts' = [s \in Sessions |-> "none"]
    /\ da' = [s \in Sessions |-> [e \in Events |-> "idle"]]
    /\ checkPc' = "pending"
    /\ startupStream' = "pending"
    /\ recov' = NoLoop
    /\ file' = NoLoop
    /\ refine' = <<>>
    /\ api' = <<>>
    /\ hist' = [NoHist EXCEPT !.boot =
           [expect |-> IF isRecording /\ ~hist.cleanStopped THEN hist.adds
                       ELSE 0,
            resolved |-> hist.resolved /\ txQueue = <<>>]]
    /\ UNCHANGED <<store, now, nextSess, refines>>

\* ---------------------------------------------------- checkForCrashedData
\* What checkForCrashedData makes of the fragments it has read.
Offer(chunks) ==
    IF Len(chunks) > 0 THEN [show |-> TRUE, chunkCount |-> Len(chunks)]
    ELSE NoOffer

\* getAllAudioChunks of checkForCrashedData returns.
checkForCrashedData ==
    /\ txQueue # <<>>
    /\ Head(txQueue).waiter = <<"check">>
    /\ store' = ApplyTx(store, Head(txQueue))
    /\ txQueue' = Tail(txQueue)
    /\ recoveryInfo' = IF Len(store) > 0 THEN Offer(store) ELSE recoveryInfo
    /\ checkPc' = "done"
    /\ UNCHANGED <<isRecording, showStopConfirm, isTranscribing, isLoadingAI,
                   loadingMessage, transcript, summary, modalInfo, refVars,
                   recorders, starts, da, opVars, runVars, hist,
                   activeMicrophone, startupStream>>

\* The discard button of the recovery dialog.
Discard ==
    /\ recoveryInfo.show
    /\ txQueue' = clearAudioChunks(txQueue, NoWaiter)
    /\ recoveryInfo' = NoOffer
    /\ hist' = [hist EXCEPT !.resolved = TRUE]
    /\ UNCHANGED <<isRecording, showStopConfirm, isTranscribing, isLoadingAI,
                   loadingMessage, transcript, summary, modalInfo, refVars,
                   store, recorders, starts, da, checkPc, opVars, runVars,
                   activeMicrophone, startupStream>>

\* ------------------------------------------------------- the chunked loop
\* One iteration of `while (currentTime < duration)` up to the await of
\* transcribeFileRaw: the window [startTime, endTime) is cut and sent.
Window(currentTime, duration) ==
    [start |-> currentTime,
     end   |-> IF currentTime + chunkSizeInSeconds < duration
               THEN currentTime + chunkSizeInSeconds ELSE duration]

\* The loop condition.
LoopContinues(currentTime, duration) == currentTime < duration

BeginRun(d) ==
    [windows |-> IF LoopContinues(0, d) THEN <<Window(0, d)>> ELSE <<>>,
     duration |-> d, ended |-> ~LoopContinues(0, d), failedAt |-> -1]

NextWindow(run, currentTime) ==
    IF LoopContinues(currentTime, run.duration)
    THEN [run EXCEPT !.windows = Append(@, Window(currentTime, run.duration))]
    ELSE [run EXCEPT !.ended = TRUE]

\* ---------------------------------------------- handleProcessRecoveredData
\* The resume button, up to `await dbManager.getAllAudioChunks()`.
handleProcessRecoveredData ==
    /\ recoveryInfo.show
    /\ recoveryInfo' = NoOffer
    /\ isTranscribing' = TRUE
    /\ loadingMessage' = "recovering"
    /\ txQueue' = getAllAudioChunks(txQueue, <<"recover">>)
    /\ recov' = [NoLoop EXCEPT !.pc = "getAll"]
    /\ hist' = [hist EXCEPT !.recovRun = NoRun]
    /\ UNCHANGED <<isRecording, showStopConfirm, isLoadingAI, transcript,
                   summary, modalInfo, refVars, store, recorders, starts, da,
                   checkPc, file, refine, api, runVars, activeMicrophone,
                   startupStream>>

\* getAllAudioChunks of the resume returns; the blob goes to
\* decodeAudioData.
RecoverRead ==
    /\ txQueue # <<>>
    /\ Head(txQueue).waiter = <<"recover">>
    /\ store' = ApplyTx(store, Head(txQueue))
    /\ txQueue' = Tail(txQueue)
    /\ recov' = [recov EXCEPT !.pc = "decode", !.n = Len(store)]
    /\ UNCHANGED <<uiVars, refVars, recorders, starts, da, checkPc, file,
                   refine, api, runVars, hist, startupStream>>

\* A finally block that leaves the fragments in the store.
RecoverFinallyKeep(q) == q

\* The store call of the finally block of handleProcessRecoveredData.
RecoverFinally(q) == clearAudioChunks(q, NoWaiter)

\* End of handleProcessRecoveredData: the try or the catch block sets the
\* dialog, the finally block resets the indicators and clears the store.
RecoverFinish(message, run) ==
    /\ isTranscribing' = FALSE
    /\ loadingMessage' = ReadyMessage
    /\ txQueue' = RecoverFinally(txQueue)
    /\ modalInfo' = [show |-> TRUE, message |-> message]
    /\ recov' = NoLoop
    /\ hist' = [hist EXCEPT !.resolved = TRUE, !.recovRun = run]

\* decodeAudioData resolves with a duration; the loop issues the call for
\* the first window, or ends at once.
RecoverDecoded(d) ==
    /\ recov.pc = "decode"
    /\ recov.n > 0
    /\ IF LoopContinues(0, d)
       THEN /\ recov' = [recov EXCEPT !.pc = "call", !.duration = d,
                                      !.currentTime = 0]
            /\ hist' = [hist EXCEPT !.recovRun = BeginRun(d)]
            /\ UNCHANGED <<isTranscribing, loadingMessage, txQueue, modalInfo>>
       ELSE RecoverFinish("recoverDone", BeginRun(d))
    /\ UNCHANGED <<isRecording, showStopConfirm, isLoadingAI, transcript,
                   summary, recoveryInfo, refVars, store, recorders, starts,
                   da, checkPc, file, refine, api, runVars, activeMicrophone,
                   startupStream>>

\* decodeAudioData rejects (always, for an empty blob): catch, finally.
RecoverDecodeFail ==
    /\ recov.pc = "decode"
    /\ RecoverFinish("recoverError", hist.recovRun)
    /\ UNCHANGED <<isRecording, showStopConfirm, isLoadingAI, transcript,
                   summary, recoveryInfo, refVars, store, recorders, starts,
                   da, checkPc, file, refine, api, runVars, activeMicrophone,
                   startupStream>>

\* transcribeFileRaw returns for the current window.  The entry's time is
\* read from currentTime when React runs the updater: at the call (eager)
\* or at the next render, after `currentTime += chunkSizeInSeconds` (lazy).
RecoverWindowReturn(text, lazy) ==
    /\ recov.pc = "call"
    /\ LET next == recov.currentTime + chunkSizeInSeconds
           time == IF lazy THEN next ELSE recov.currentTime IN
         /\ transcript' = Append(transcript, Entry(time, Normalize(text)))
         /\ IF LoopContinues(next, recov.duration)
            THEN /\ recov' = [recov EXCEPT !.currentTime = next]
                 /\ hist' = [hist EXCEPT !.recovRun = NextWindow(@, next)]
                 /\ UNCHANGED <<isTranscribing, loadingMessage, txQueue,
                                modalInfo>>
            ELSE RecoverFinish("recoverDone", NextWindow(hist.recovRun, next))
    /\ UNCHANGED <<isRecording, showStopConfirm, isLoadingAI, summary,
                   recoveryInfo, refVars, store, recorders, starts, da,
                   checkPc, file, refine, api, runVars, activeMicrophone,
                   startupStream>>

\* transcribeFileRaw throws for the current window: catch, finally.
RecoverWindowFail ==
    /\ recov.pc = "call"
    /\ RecoverFinish("recoverError",
                     [hist.recovRun EXCEPT !.ended = TRUE,
                                      !.failedAt = recov.currentTime])
    /\ UNCHANGED <<isRecording, showStopConfirm, isLoadingAI, transcript,
                   summary, recoveryInfo, refVars, store, recorders, starts,
                   da, checkPc, file, refine, api, runVars, activeMicrophone,
                   startupStream>>

\* -------------------------------------------------------- handleFileChange
\* A file is chosen: the transcript is reset and the file is handed to
\* decodeAudioData.
handleFileChange ==
    /\ loadingMessage = ReadyMessage
    /\ ~isRecording
    /\ transcript' = <<>>
    /\ summary' = "none"
    /\ isTranscribing' = TRUE
    /\ loadingMessage' = "file"
    /\ file' = [NoLoop EXCEPT !.pc = "decode"]
    /\ hist' = [hist EXCEPT !.fileRun = NoRun, !.owner = -1]
    /\ UNCHANGED <<isRecording, showStopConfirm, isLoadingAI, recoveryInfo,
                   modalInfo, refVars, envVars, recov, refine, api, runVars,
                   activeMicrophone, startupStream>>

\* An end of handleFileChange without the finally block.
FileFinishStuck(message, run) ==
    /\ UNCHANGED <<isTranscribing, loadingMessage>>
    /\ modalInfo' = [show |-> TRUE, message |-> message]
    /\ file' = NoLoop
    /\ hist' = [hist EXCEPT !.fileRun = run]

\* End of handleFileChange: dialog of the try or the catch block, then the
\* finally block.
FileFinish(message, run) ==
    /\ isTranscribing' = FALSE
    /\ loadingMessage' = ReadyMessage
    /\ modalInfo' = [show |-> TRUE, message |-> message]
    /\ file' = NoLoop
    /\ hist' = [hist EXCEPT !.fileRun = run]

\* decodeAudioData resolves with a duration.
FileDecoded(d) ==
    /\ file.pc = "decode"
    /\ IF LoopContinues(0, d)
       THEN /\ file' = [file EXCEPT !.pc = "call", !.duration = d,
                                    !.currentTime = 0]
            /\ hist' = [hist EXCEPT !.fileRun = BeginRun(d)]
            /\ UNCHANGED <<isTranscribing, loadingMessage, modalInfo>>
       ELSE FileFinish("fileDone", BeginRun(d))
    /\ UNCHANGED <<isRecording, showStopConfirm, isLoadingAI, transcript,
                   summary, recoveryInfo, refVars, envVars, recov, refine,
                   api, runVars, activeMicrophone, startupStream>>

\* decodeAudioData rejects: catch, finally.
FileDecodeFail ==
    /\ file.pc = "decode"
    /\ FileFinish("fileError", hist.fileRun)
    /\ UNCHANGED <<isRecording, showStopConfirm, isLoadingAI, transcript,
                   summary, recoveryInfo, refVars, envVars, recov, refine,
                   api, runVars, activeMicrophone, startupStream>>

\* transcribeFileRaw returns for the current window: the entry gets the
\* window's startTime; a pacing delay follows unless it was the last one.
FileWindowReturn(text) ==
    /\ file.pc = "call"
    /\ LET next == file.currentTime + chunkSizeInSeconds IN
         /\ transcript' = Append(transcript,
                                 Entry(file.currentTime, Normalize(text)))
         /\ IF LoopContinues(next, file.duration)
            THEN /\ file' = [file EXCEPT !.pc = "delay", !.currentTime = next]
                 /\ UNCHANGED <<isTranscribing, loadingMessage, modalInfo,
                                hist>>
            ELSE FileFinish("fileDone", NextWindow(hist.fileRun, next))
    /\ UNCHANGED <<isRecording, showStopConfirm, isLoadingAI, summary,
                   recoveryInfo, refVars, envVars, recov, refine, api,
                   runVars, activeMicrophone, startupStream>>

\* The 5 s timer of the pacing delay fires: the next window is sent.
FileDelayDone ==
    /\ file.pc = "delay"
    /\ file' = [file EXCEPT !.pc = "call"]
    /\ hist' = [hist EXCEPT !.fileRun = NextWindow(@, file.currentTime)]
    /\ UNCHANGED <<uiVars, refVars, envVars, recov, refine, api, runVars,
                   startupStream>>

\* transcribeFileRaw throws for the current window: catch, finally.
FileWindowFail ==
    /\ file.pc = "call"
    /\ FileFinish("fileError",
                  [hist.fileRun EXCEPT !.ended = TRUE,
                                   !.failedAt = file.currentTime])
    /\ UNCHANGED <<isRecording, showStopConfirm, isLoadingAI, transcript,
                   summary, recoveryInfo, refVars, envVars, recov, refine,
                   api, runVars, activeMicrophone, startupStream>>

\* --------------------------------------------------- handleRefineTranscript
\* Index of the first "\n" of a text, 0 when there is none.
IndexOfNewline(text) ==
    IF \E i \in 1..Len(text) : text[i] = "\n"
    THEN CHOOSE i \in 1..Len(text) :
             /\ text[i] = "\n"
             /\ \A j \in 1..(i - 1) : text[j] # "\n"
    ELSE 0

\* refinedText.split('\n')
RECURSIVE Split(_)
Split(text) ==
    LET i == IndexOfNewline(text) IN
      IF i = 0 THEN <<text>>
      ELSE <<SubSeq(text, 1, i - 1)>> \o Split(SubSeq(text, i + 1, Len(text)))

\* .filter(line => line.trim() !== '')
NotBlankLine(line) == ~TrimEmpty(line)
RefinedLines(text) == SelectSeq(Split(text), NotBlankLine)

\* A pairing whose lines past the end take the first timestamp.
RefineTimePastEnd(original, index) ==
    IF index <= Len(original) THEN original[index].time
    ELSE IF Len(original) > 0 THEN original[1].time
    ELSE 0

\* The time of the entry made of line `index` (counted from 1 here):
\* originalTranscript[index] ? originalTranscript[index].time
\*                           : (originalTranscript[length - 1]?.time || 0)
RefineTime(original, index) ==
    IF index <= Len(original) THEN original[index].time
    ELSE IF Len(original) > 0 THEN original[Len(original)].time
    ELSE 0

\* refinedLines.map((line, index) => ({ time, text: line }))
NewTranscript(text, original) ==
    LET refinedLines == RefinedLines(text) IN
      [i \in 1..Len(refinedLines) |->
          Entry(RefineTime(original, i), refinedLines[i])]

\* Removal of element i of a sequence.
Remove(seq, i) == SubSeq(seq, 1, i - 1) \o SubSeq(seq, i + 1, Len(seq))

\* The refine button (rendered when nothing records or transcribes and the
\* transcript is not empty), up to `await refineTranscriptWithMemo(...)`.
\* The handler keeps the transcript of the render it was created in.
handleRefineTranscript ==
    /\ ~isRecording
    /\ ~isTranscribing
    /\ Len(transcript) > 0
    /\ refines < MaxRefines
    /\ refines' = refines + 1
    /\ isTranscribing' = TRUE
    /\ loadingMessage' = "refining"
    /\ refine' = Append(refine, transcript)
    /\ UNCHANGED <<isRecording, showStopConfirm, isLoadingAI, transcript,
                   summary, recoveryInfo, modalInfo, refVars, envVars, recov,
                   file, api, now, nextSess, crashes, hist, activeMicrophone,
                   startupStream>>

\* The finally block of handleRefineTranscript, after the dialog of the try
\* or the catch block.
RefineFinish(i, message) ==
    /\ modalInfo' = [show |-> TRUE, message |-> message]
    /\ isTranscribing' = FALSE
    /\ loadingMessage' = ReadyMessage
    /\ refine' = Remove(refine, i)

\* refineTranscriptWithMemo returns: the transcript is replaced.
RefineReturn(i, text) ==
    /\ i \in DOMAIN refine
    /\ transcript' = NewTranscript(text, refine[i])
    /\ RefineFinish(i, "refineDone")
    /\ hist' = [hist EXCEPT !.refined = [n |-> 1 - @.n, text |-> text]]
    /\ UNCHANGED <<isRecording, showStopConfirm, isLoadingAI, summary,
                   recoveryInfo, refVars, envVars, recov, file, api, runVars,
                   activeMicrophone, startupStream>>

\* A catch block that also empties the transcript.
RefineFailClears(i) ==
    /\ i \in DOMAIN refine
    /\ RefineFinish(i, "refineError")
    /\ transcript' = <<>>
    /\ UNCHANGED <<isRecording, showStopConfirm, isLoadingAI, summary,
                   recoveryInfo, refVars, envVars, recov, file, api, runVars,
                   hist, activeMicrophone, startupStream>>

\* refineTranscriptWithMemo throws: the transcript is kept.
RefineFail(i) ==
    /\ i \in DOMAIN refine
    /\ RefineFinish(i, "refineError")
    /\ UNCHANGED <<isRecording, showStopConfirm, isLoadingAI, transcript,
                   summary, recoveryInfo, refVars, envVars, recov, file, api,
                   runVars, hist, activeMicrophone, startupStream>>

\* --------------------------------------------------------- generateSummary
\* What result.response.text() may be: the minutes, or an empty text.
SummaryTexts == {"minutes", "none"}

\* generateSummary up to `await model.generateContent(prompt)`.  The button
\* is disabled while isLoadingAI or while the transcript is empty; the
\* streaming variant sets isLoadingAI nowhere else.
generateSummary ==
    /\ ~isLoadingAI
    /\ transcript # <<>>
    /\ isLoadingAI' = TRUE
    /\ summary' = "none"
    /\ modalInfo' = [show |-> TRUE, message |-> "summaryStart"]
    /\ hist' = [hist EXCEPT !.priorSummary = summary]
    /\ UNCHANGED <<isRecording, showStopConfirm, isTranscribing,
                   loadingMessage, transcript, recoveryInfo, refVars,
                   envVars, opVars, runVars, activeMicrophone, startupStream>>

\* generateContent resolves: the summary is set, then the finally block.
SummaryReturn(text) ==
    /\ isLoadingAI
    /\ summary' = text
    /\ modalInfo' = [show |-> TRUE, message |-> "summaryDone"]
    /\ isLoadingAI' = FALSE
    /\ UNCHANGED <<isRecording, showStopConfirm, isTranscribing,
                   loadingMessage, transcript, recoveryInfo, refVars,
                   envVars, opVars, runVars, hist, activeMicrophone,
                   startupStream>>

\* generateContent rejects: the catch block, then the finally block.
SummaryFail ==
    /\ isLoadingAI
    /\ modalInfo' = [show |-> TRUE, message |-> "summaryError"]
    /\ isLoadingAI' = FALSE
    /\ UNCHANGED <<isRecording, showStopConfirm, isTranscribing,
                   loadingMessage, transcript, summary, recoveryInfo,
                   refVars, envVars, opVars, runVars, hist, activeMicrophone,
                   startupStream>>

\* -------------------------------------------------- the backend-API variant
\* toggleRecording with isRecording true (the button is disabled while
\* isLoadingAI).
RequestStopApi ==
    /\ isRecording
    /\ ~isLoadingAI
    /\ showStopConfirm' = TRUE
    /\ UNCHANGED <<isRecording, isTranscribing, isLoadingAI, loadingMessage,
                   transcript, summary, recoveryInfo, modalInfo, refVars,
                   envVars, opVars, runVars, hist, activeMicrophone,
                   startupStream>>

\* toggleRecording with isRecording false, up to `await clearAudioChunks()`.
ToggleStartApi(limit) ==
    /\ ~isRecording
    /\ ~isLoadingAI
    /\ nextSess <= limit
    /\ nextSess <= MaxSessions
    /\ starts' = [starts EXCEPT ![nextSess] = "clear"]
    /\ txQueue' = clearAudioChunks(txQueue, <<"start", nextSess>>)
    /\ nextSess' = nextSess + 1
    /\ hist' = [hist EXCEPT !.cleanStopped = FALSE,
                             !.stopTranscribed = FALSE]
    /\ UNCHANGED <<uiVars, refVars, store, recorders, da, checkPc, opVars,
                   now, crashes, refines, startupStream>>

\* getUserMedia resolves: the rest of the try block runs to the end.
GumResolveApi(s) ==
    /\ starts[s] = "gum"
    /\ starts' = [starts EXCEPT ![s] = "none"]
    /\ audioChunksRef' = <<>>
    /\ mediaRecorderRef' = s
    /\ recorders' = [recorders EXCEPT ![s] = NewRecorder]
    /\ transcript' = <<>>
    /\ summary' = "none"
    /\ isRecording' = TRUE
    /\ activeMicrophone' = "label"
    /\ recordingStartTimeRef' = now
    /\ hist' = [hist EXCEPT !.adds = IF isRecording THEN @ ELSE 0,
                             !.owner = s]
    /\ UNCHANGED <<showStopConfirm, isTranscribing, isLoadingAI,
                   loadingMessage, recoveryInfo, modalInfo,
                   lastTranscriptTextRef, store, txQueue, da, checkPc, opVars,
                   runVars, startupStream>>

\* ondataavailable with a fragment of non-zero size: the fragment is pushed
\* and addAudioChunk is called un-awaited.
DataAvailableApi(s) ==
    /\ recorders[s].state = "recording"
    /\ recorders[s].after = {}
    /\ recorders[s].ticks < MaxChunks
    /\ LET chunk == [sess |-> s, idx |-> recorders[s].ticks + 1] IN
         /\ audioChunksRef' = Append(audioChunksRef, chunk)
         /\ txQueue' = addAudioChunk(txQueue, chunk, NoWaiter)
    /\ recorders' = [recorders EXCEPT ![s].ticks = @ + 1]
    /\ now' = now + timeslice
    /\ hist' = [hist EXCEPT !.resolved = FALSE]
    /\ UNCHANGED <<uiVars, mediaRecorderRef, lastTranscriptTextRef,
                   recordingStartTimeRef, store, starts, da, checkPc, opVars,
                   nextSess, crashes, refines, startupStream>>

\* transcribeAudioWithApi up to `await fetch('/api/transcribe', ...)`.
transcribeAudioWithApi(kind) ==
    /\ isLoadingAI' = TRUE
    /\ loadingMessage' = "apiTranscribing"
    /\ api' = Append(api, kind)

\* The task queued by MediaRecorder.stop(): the final dataavailable event,
\* then onstop, which sends the blob of the accumulator when it is not
\* empty.  onstop makes no call to the store.
StopTaskApi(s, nonEmpty) ==
    /\ recorders[s].state = "inactive"
    /\ recorders[s].stopTask
    /\ recorders[s].after = {}
    /\ LET chunk == [sess |-> s, idx |-> recorders[s].ticks + 1] IN
         IF nonEmpty
         THEN /\ audioChunksRef' = Append(audioChunksRef, chunk)
              /\ txQueue' = addAudioChunk(txQueue, chunk, NoWaiter)
         ELSE UNCHANGED <<audioChunksRef, txQueue>>
    /\ IF audioChunksRef' # <<>>
       THEN transcribeAudioWithApi("stop")
       ELSE UNCHANGED <<isLoadingAI, loadingMessage, api, activeMicrophone,
                        startupStream>>
    /\ recorders' = [r \in Sessions |->
           IF r = s
           THEN [recorders[r] EXCEPT !.stopTask = FALSE, !.tracksLive = FALSE]
           ELSE [recorders[r] EXCEPT !.after = @ \ {s}]]
    /\ hist' = [hist EXCEPT !.resolved = IF nonEmpty THEN FALSE ELSE @]
    /\ UNCHANGED <<isRecording, showStopConfirm, isTranscribing, transcript,
                   summary, recoveryInfo, modalInfo, mediaRecorderRef,
                   lastTranscriptTextRef, recordingStartTimeRef, store, starts,
                   da, checkPc, recov, file, refine, runVars,
                   activeMicrophone, startupStream>>

\* handleConfirmStop of the backend variant: the recorder is stopped, the
\* store is not touched.
handleConfirmStopApi ==
    /\ showStopConfirm
    /\ IF mediaRecorderRef # 0 /\ recorders[mediaRecorderRef].state = "recording"
       THEN /\ recorders' = StopRecorder(recorders, mediaRecorderRef)
            /\ hist' = [hist EXCEPT !.cleanStopped = TRUE]
       ELSE UNCHANGED <<recorders, hist>>
    /\ isRecording' = FALSE
    /\ showStopConfirm' = FALSE
    /\ UNCHANGED <<isTranscribing, isLoadingAI, loadingMessage, transcript,
                   summary, recoveryInfo, modalInfo, refVars, store, txQueue,
                   starts, da, checkPc, opVars, runVars, activeMicrophone,
                   startupStream>>

\* What follows `await transcribeAudioWithApi(recoveredBlob)` in
\* handleProcessRecoveredData: clearAudioChunks, un-awaited.
AfterApi(kind) ==
    IF kind = "recover"
    THEN /\ txQueue' = clearAudioChunks(txQueue, NoWaiter)
         /\ hist' = [hist EXCEPT !.resolved = TRUE]
    ELSE /\ UNCHANGED txQueue
         /\ hist' = [hist EXCEPT !.stopTranscribed = TRUE]

\* The finally block of transcribeAudioWithApi.
ApiFinally(i) ==
    /\ isLoadingAI' = FALSE
    /\ loadingMessage' = ReadyMessage
    /\ api' = Remove(api, i)

\* /api/transcribe answers with a transcription: the transcript becomes
\* the single entry of the answer.
ApiReturn(i, text) ==
    /\ i \in DOMAIN api
    /\ transcript' = <<Entry(now - recordingStartTimeRef, text)>>
    /\ modalInfo' = [show |-> TRUE, message |-> "apiDone"]
    /\ ApiFinally(i)
    /\ AfterApi(api[i])
    /\ UNCHANGED <<isRecording, showStopConfirm, isTranscribing, summary,
                   recoveryInfo, refVars, store, recorders, starts, da,
                   checkPc, recov, file, refine, runVars, activeMicrophone,
                   startupStream>>

\* /api/transcribe fails: the catch block of transcribeAudioWithApi appends
\* an error entry at time 0; the caller goes on.
ApiFail(i) ==
    /\ i \in DOMAIN api
    /\ transcript' = Append(transcript, Entry(0, ErrorText))
    /\ modalInfo' = [show |-> TRUE, message |-> "apiError"]
    /\ ApiFinally(i)
    /\ IF api[i] = "recover"
       THEN /\ txQueue' = clearAudioChunks(txQueue, NoWaiter)
            /\ hist' = [hist EXCEPT !.resolved = TRUE]
       ELSE UNCHANGED <<txQueue, hist>>
    /\ UNCHANGED <<isRecording, showStopConfirm, isTranscribing, summary,
                   recoveryInfo, refVars, store, recorders, starts, da,
                   checkPc, recov, file, refine, runVars, activeMicrophone,
                   startupStream>>

\* The resume button of the backend variant, up to
\* `await dbManager.getAllAudioChunks()`.
handleProcessRecoveredDataApi ==
    /\ recoveryInfo.show
    /\ recoveryInfo' = NoOffer
    /\ txQueue' = getAllAudioChunks(txQueue, <<"recoverApi">>)
    /\ UNCHANGED <<isRecording, showStopConfirm, isTranscribing, isLoadingAI,
                   loadingMessage, transcript, summary, modalInfo, refVars,
                   store, recorders, starts, da, checkPc, opVars, runVars,
                   hist, activeMicrophone, startupStream>>

\* getAllAudioChunks of the resume returns: fragments are sent to the API,
\* no fragment goes straight to clearAudioChunks.
RecoverReadApi ==
    /\ txQueue # <<>>
    /\ Head(txQueue).waiter = <<"recoverApi">>
    /\ store' = ApplyTx(store, Head(txQueue))
    /\ IF Len(store) > 0
       THEN /\ transcribeAudioWithApi("recover")
            /\ txQueue' = Tail(txQueue)
            /\ UNCHANGED hist
       ELSE /\ txQueue' = clearAudioChunks(Tail(txQueue), NoWaiter)
            /\ hist' = [hist EXCEPT !.resolved = TRUE]
            /\ UNCHANGED <<isLoadingAI, loadingMessage, api, activeMicrophone,
                           startupStream>>
    /\ UNCHANGED <<isRecording, showStopConfirm, isTranscribing, transcript,
                   summary, recoveryInfo, modalInfo, refVars, recorders,
                   starts, da, checkPc, recov, file, refine, runVars,
                   activeMicrophone, startupStream>>

\* ------------------------------------- the backend variant of part_002
\* transcribeAudioWithApi of part_002 up to the await of fetch: the
\* transcript is emptied before the request.
transcribeAudioWithApiClears(kind) ==
    /\ transcribeAudioWithApi(kind)
    /\ transcript' = <<>>

\* getUserMedia rejects: the catch block of part_002 opens a dialog.
GumRejectModal(s) ==
    /\ starts[s] = "gum"
    /\ starts' = [starts EXCEPT ![s] = "none"]
    /\ modalInfo' = [show |-> TRUE, message |-> "micError"]
    /\ hist' = [hist EXCEPT !.prior[s] = NoPrior]
    /\ UNCHANGED <<isRecording, showStopConfirm, isTranscribing, isLoadingAI,
                   loadingMessage, transcript, summary, recoveryInfo,
                   activeMicrophone, refVars, store, txQueue, recorders, da,
                   checkPc, opVars, runVars, startupStream>>

\* The task queued by MediaRecorder.stop(): the final dataavailable event,
\* then onstop, which sends the blob of the accumulator when it is not
\* empty.
StopTaskClears(s, nonEmpty) ==
    /\ recorders[s].state = "inactive"
    /\ recorders[s].stopTask
    /\ recorders[s].after = {}
    /\ LET chunk == [sess |-> s, idx |-> recorders[s].ticks + 1] IN
         IF nonEmpty
         THEN /\ audioChunksRef' = Append(audioChunksRef, chunk)
              /\ txQueue' = addAudioChunk(txQueue, chunk, NoWaiter)
         ELSE UNCHANGED <<audioChunksRef, txQueue>>
    /\ IF audioChunksRef' # <<>>
       THEN transcribeAudioWithApiClears("stop")
       ELSE UNCHANGED <<isLoadingAI, loadingMessage, api, transcript>>
    /\ recorders' = [r \in Sessions |->
           IF r = s
           THEN [recorders[r] EXCEPT !.stopTask = FALSE, !.tracksLive = FALSE]
           ELSE [recorders[r] EXCEPT !.after = @ \ {s}]]
    /\ hist' = [hist EXCEPT !.resolved = IF nonEmpty THEN FALSE ELSE @]
    /\ UNCHANGED <<isRecording, showStopConfirm, isTranscribing, summary,
                   recoveryInfo, modalInfo, activeMicrophone,
                   mediaRecorderRef, lastTranscriptTextRef,
                   recordingStartTimeRef, store, starts, da, checkPc, recov,
                   file, refine, runVars, startupStream>>

\* handleFileChange: a file is chosen (the button is disabled while
\* isLoadingAI or isRecording) and sent as it is.
handleFileChangeApi ==
    /\ ~isLoadingAI
    /\ ~isRecording
    /\ summary' = "none"
    /\ transcribeAudioWithApiClears("file")
    /\ hist' = [hist EXCEPT !.owner = -1]
    /\ UNCHANGED <<isRecording, showStopConfirm, isTranscribing, recoveryInfo,
                   modalInfo, activeMicrophone, refVars, envVars, recov, file,
                   refine, runVars, startupStream>>

\* getAllAudioChunks of the resume returns.
RecoverReadClears ==
    /\ txQueue # <<>>
    /\ Head(txQueue).waiter = <<"recoverApi">>
    /\ store' = ApplyTx(store, Head(txQueue))
    /\ IF Len(store) > 0
       THEN /\ transcribeAudioWithApiClears("recover")
            /\ txQueue' = Tail(txQueue)
            /\ UNCHANGED hist
       ELSE /\ txQueue' = clearAudioChunks(Tail(txQueue), NoWaiter)
            /\ hist' = [hist EXCEPT !.resolved = TRUE]
            /\ UNCHANGED <<isLoadingAI, loadingMessage, api, transcript>>
    /\ UNCHANGED <<isRecording, showStopConfirm, isTranscribing, summary,
                   recoveryInfo, modalInfo, activeMicrophone, refVars,
                   recorders, starts, da, checkPc, recov, file, refine,
                   runVars, startupStream>>

\* What follows the await of transcribeAudioWithApi in its caller.
AfterApiClears(kind) ==
    IF kind = "recover"
    THEN /\ txQueue' = clearAudioChunks(txQueue, NoWaiter)
         /\ hist' = [hist EXCEPT !.resolved = TRUE]
    ELSE /\ UNCHANGED txQueue
         /\ hist' = [hist EXCEPT !.stopTranscribed = @ \/ kind = "stop"]

\* /api/transcribe answers with a transcription.
ApiReturnClears(i, text) ==
    /\ i \in DOMAIN api
    /\ LET startTime == IF recordingStartTimeRef = 0 THEN now
                        ELSE recordingStartTimeRef IN
         transcript' = <<Entry(now - startTime, text)>>
    /\ modalInfo' = [show |-> TRUE, message |-> "apiDone"]
    /\ ApiFinally(i)
    /\ AfterApiClears(api[i])
    /\ UNCHANGED <<isRecording, showStopConfirm, isTranscribing, summary,
                   recoveryInfo, activeMicrophone, refVars, store, recorders,
                   starts, da, checkPc, recov, file, refine, runVars,
                   startupStream>>

\* /api/transcribe fails: the catch block of part_002 opens the dialog and
\* empties the transcript.
ApiFailClears(i) ==
    /\ i \in DOMAIN api
    /\ transcript' = <<>>
    /\ modalInfo' = [show |-> TRUE, message |-> "apiFileError"]
    /\ ApiFinally(i)
    /\ IF api[i] = "recover"
       THEN /\ txQueue' = clearAudioChunks(txQueue, NoWaiter)
            /\ hist' = [hist EXCEPT !.resolved = TRUE]
       ELSE UNCHANGED <<txQueue, hist>>
    /\ UNCHANGED <<isRecording, showStopConfirm, isTranscribing, summary,
                   recoveryInfo, activeMicrophone, refVars, store, recorders,
                   starts, da, checkPc, recov, file, refine, runVars,
                   startupStream>>
\* ------------------------------------------------------- specifications
\* Durations and texts of the specifications that follow the store.
ShortDurations == {0, 45}
OneText        == {<<"a">>}

\* The streaming variant: recording, store, process exit and recovery, with
\* at most `limit` start invocations of toggleRecording.
StreamStep(limit, durations, texts, lazies) ==
    \/ RequestStop
    \/ ToggleStart(limit)
    \/ CommitStartClear
    \/ \E s \in Sessions : GumResolve(s)
    \/ \E s \in Sessions : GumReject(s)
    \/ \E s \in Sessions : DataAvailable(s)
    \/ CommitAdd
    \/ \E s \in Sessions, nonEmpty \in BOOLEAN : StopTask(s, nonEmpty)
    \/ \E s \in Sessions, e \in Events, text \in texts :
          TranscribeReturn(s, e, text)
    \/ \E s \in Sessions, e \in Events : TranscribeFail(s, e)
    \/ handleConfirmStop
    \/ CancelStop
    \/ CommitPlain
    \/ Crash
    \/ checkForCrashedData
    \/ Discard
    \/ handleProcessRecoveredData
    \/ RecoverRead
    \/ \E d \in durations : RecoverDecoded(d)
    \/ RecoverDecodeFail
    \/ \E text \in texts, lazy \in lazies : RecoverWindowReturn(text, lazy)
    \/ RecoverWindowFail

\* One start invocation at a time: a session is started, recorded, stopped
\* or interrupted, and recovered at the next start of the page.
Next == StreamStep(SoloSessions, ShortDurations, OneText, {FALSE})

Spec == Init /\ [][Next]_vars

\* Start invocations that overlap, on a store that is empty at first.
NextDouble ==
    \/ RequestStop
    \/ ToggleStart(MaxSessions)
    \/ CommitStartClear
    \/ \E s \in Sessions : GumResolve(s)
    \/ \E s \in Sessions : GumReject(s)
    \/ \E s \in Sessions : DataAvailable(s)
    \/ CommitAdd
    \/ \E s \in Sessions, nonEmpty \in BOOLEAN : StopTask(s, nonEmpty)
    \/ \E s \in Sessions, e \in Events, text \in ServiceTexts :
          TranscribeReturn(s, e, text)
    \/ \E s \in Sessions, e \in Events : TranscribeFail(s, e)
    \/ handleConfirmStop
    \/ CancelStop
    \/ CommitPlain
    \/ checkForCrashedData

InitDouble == Boot /\ store = <<>>

SpecDouble == InitDouble /\ [][NextDouble]_vars

\* The same, and the task that MediaRecorder.stop() has queued is run.
SpecDoubleFair ==
    /\ SpecDouble
    /\ \A s \in Sessions :
          WF_vars(\E nonEmpty \in BOOLEAN : StopTask(s, nonEmpty))

\* Recording with one start invocation at a time, on a store that is empty
\* at first, where the external model returns the texts of a recording
\* that grows.
NextDelta ==
    \/ RequestStop
    \/ ToggleStart(SoloSessions)
    \/ CommitStartClear
    \/ \E s \in Sessions : GumResolve(s)
    \/ \E s \in Sessions : GumReject(s)
    \/ \E s \in Sessions : DataAvailable(s)
    \/ CommitAdd
    \/ \E s \in Sessions, nonEmpty \in BOOLEAN : StopTask(s, nonEmpty)
    \/ \E s \in Sessions, e \in Events, text \in StreamTexts :
          TranscribeReturn(s, e, text)
    \/ \E s \in Sessions, e \in Events : TranscribeFail(s, e)
    \/ handleConfirmStop
    \/ CancelStop
    \/ CommitPlain
    \/ checkForCrashedData

SpecDelta == InitDouble /\ [][NextDelta]_vars

\* Recording with one start invocation at a time, where the recorder, the
\* input device and the store may fail.
NextFaults ==
    \/ RequestStop
    \/ ToggleStart(SoloSessions)
    \/ CommitStartClear
    \/ StartClearFail
    \/ \E s \in Sessions : GumResolve(s)
    \/ \E s \in Sessions : GumReject(s)
    \/ \E s \in Sessions : RecorderFail(s)
    \/ \E s \in Sessions : StartFail(s)
    \/ \E s \in Sessions : DeviceLost(s)
    \/ \E s \in Sessions : DataAvailable(s)
    \/ CommitAdd
    \/ AddFail
    \/ \E s \in Sessions, nonEmpty \in BOOLEAN : StopTask(s, nonEmpty)
    \/ \E s \in Sessions, e \in Events, text \in OneText :
          TranscribeReturn(s, e, text)
    \/ \E s \in Sessions, e \in Events : TranscribeFail(s, e)
    \/ handleConfirmStop
    \/ CancelStop
    \/ CommitPlain
    \/ checkForCrashedData

SpecFaults == InitDouble /\ [][NextFaults]_vars

\* File transcription, recovery and refinement, nothing recording.
NextFile ==
    \/ handleFileChange
    \/ \E d \in Durations : FileDecoded(d)
    \/ FileDecodeFail
    \/ \E text \in ServiceTexts : FileWindowReturn(text)
    \/ FileDelayDone
    \/ FileWindowFail
    \/ checkForCrashedData
    \/ Discard
    \/ handleProcessRecoveredData
    \/ RecoverRead
    \/ \E d \in Durations : RecoverDecoded(d)
    \/ RecoverDecodeFail
    \/ \E text \in ServiceTexts, lazy \in BOOLEAN :
          RecoverWindowReturn(text, lazy)
    \/ RecoverWindowFail
    \/ CommitPlain

SpecFile == Init /\ [][NextFile]_vars

\* File transcription and refinement of its transcript.
NextRefine ==
    \/ handleFileChange
    \/ \E d \in Durations : FileDecoded(d)
    \/ FileDecodeFail
    \/ \E text \in ServiceTexts : FileWindowReturn(text)
    \/ FileDelayDone
    \/ FileWindowFail
    \/ checkForCrashedData
    \/ handleRefineTranscript
    \/ \E i \in 1..MaxRefines, text \in RefinedTexts : RefineReturn(i, text)
    \/ \E i \in 1..MaxRefines : RefineFail(i)

SpecRefine == InitDouble /\ [][NextRefine]_vars

\* File transcription and the summary of its transcript.
NextSummary ==
    \/ handleFileChange
    \/ \E d \in Durations : FileDecoded(d)
    \/ FileDecodeFail
    \/ \E text \in ServiceTexts : FileWindowReturn(text)
    \/ FileDelayDone
    \/ FileWindowFail
    \/ checkForCrashedData
    \/ generateSummary
    \/ \E text \in SummaryTexts : SummaryReturn(text)
    \/ SummaryFail

SpecSummary == InitDouble /\ [][NextSummary]_vars

\* Durations of the files chosen where every operation runs: no audio and
\* two windows.
LiveDurations == {0, 120}

\* Every operation of the streaming variant that sets an indicator: the
\* ticks of a recording that is started and goes on, file transcription,
\* recovery, refinement and summary, with one text and short durations.
NextLive ==
    \/ ToggleStart(SoloSessions)
    \/ CommitStartClear
    \/ \E s \in Sessions : GumResolve(s)
    \/ \E s \in Sessions : GumReject(s)
    \/ \E s \in Sessions : DataAvailable(s)
    \/ CommitAdd
    \/ \E s \in Sessions, e \in Events, text \in OneText :
          TranscribeReturn(s, e, text)
    \/ \E s \in Sessions, e \in Events : TranscribeFail(s, e)
    \/ CommitPlain
    \/ checkForCrashedData
    \/ Discard
    \/ handleProcessRecoveredData
    \/ RecoverRead
    \/ \E d \in ShortDurations : RecoverDecoded(d)
    \/ RecoverDecodeFail
    \/ \E text \in OneText : RecoverWindowReturn(text, FALSE)
    \/ RecoverWindowFail
    \/ handleFileChange
    \/ \E d \in LiveDurations : FileDecoded(d)
    \/ FileDecodeFail
    \/ \E text \in OneText : FileWindowReturn(text)
    \/ FileDelayDone
    \/ FileWindowFail
    \/ handleRefineTranscript
    \/ \E i \in 1..MaxRefines, text \in OneText : RefineReturn(i, text)
    \/ \E i \in 1..MaxRefines : RefineFail(i)
    \/ generateSummary
    \/ \E text \in SummaryTexts : SummaryReturn(text)
    \/ SummaryFail

\* Every store transaction completes and every external call returns or
\* fails.
FairLive ==
    /\ WF_vars(CommitStartClear) /\ WF_vars(CommitAdd) /\ WF_vars(CommitPlain)
    /\ WF_vars(checkForCrashedData) /\ WF_vars(RecoverRead)
    /\ \A s \in Sessions :
          /\ WF_vars(GumResolve(s) \/ GumReject(s))
          /\ \A e \in Events :
                WF_vars((\E text \in OneText : TranscribeReturn(s, e, text))
                            \/ TranscribeFail(s, e))
    /\ WF_vars((\E d \in ShortDurations : RecoverDecoded(d))
                   \/ RecoverDecodeFail)
    /\ WF_vars((\E text \in OneText : RecoverWindowReturn(text, FALSE))
                   \/ RecoverWindowFail)
    /\ WF_vars((\E d \in LiveDurations : FileDecoded(d)) \/ FileDecodeFail)
    /\ WF_vars((\E text \in OneText : FileWindowReturn(text))
                   \/ FileWindowFail)
    /\ WF_vars(FileDelayDone)
    /\ \A i \in 1..MaxRefines :
          WF_vars((\E text \in OneText : RefineReturn(i, text))
                      \/ RefineFail(i))
    /\ WF_vars((\E text \in SummaryTexts : SummaryReturn(text))
                   \/ SummaryFail)

\* The page is opened with one fragment of an interrupted session.
InitLive == Boot /\ store = Orphans(1)

SpecLive == InitLive /\ [][NextLive]_vars /\ FairLive

\* The backend-API variant: recording, store, process exit and recovery.
NextApi ==
    \/ RequestStopApi
    \/ ToggleStartApi(SoloSessions)
    \/ CommitStartClear
    \/ \E s \in Sessions : GumResolveApi(s)
    \/ \E s \in Sessions : GumReject(s)
    \/ \E s \in Sessions : DataAvailableApi(s)
    \/ \E s \in Sessions, nonEmpty \in BOOLEAN : StopTaskApi(s, nonEmpty)
    \/ handleConfirmStopApi
    \/ CancelStop
    \/ CommitPlain
    \/ \E i \in 1..(MaxSessions + 1), text \in OneText : ApiReturn(i, text)
    \/ \E i \in 1..(MaxSessions + 1) : ApiFail(i)
    \/ Crash
    \/ checkForCrashedData
    \/ Discard
    \/ handleProcessRecoveredDataApi
    \/ RecoverReadApi

SpecApi == Init /\ [][NextApi]_vars

\* The backend variant of part_002: recording, file upload, process exit
\* and recovery.  toggleRecording up to its catch block, the recorder's
\* handlers, handleConfirmStop, the mount effect and handleDiscard are the
\* code of the other backend variant.
NextApiClears ==
    \/ RequestStopApi
    \/ ToggleStartApi(SoloSessions)
    \/ CommitStartClear
    \/ \E s \in Sessions : GumResolveApi(s)
    \/ \E s \in Sessions : GumRejectModal(s)
    \/ \E s \in Sessions : DataAvailableApi(s)
    \/ \E s \in Sessions, nonEmpty \in BOOLEAN : StopTaskClears(s, nonEmpty)
    \/ handleConfirmStopApi
    \/ CancelStop
    \/ handleFileChangeApi
    \/ \E i \in 1..(MaxSessions + 1), text \in OneText :
          ApiReturnClears(i, text)
    \/ \E i \in 1..(MaxSessions + 1) : ApiFailClears(i)
    \/ CommitPlain
    \/ Crash
    \/ checkForCrashedData
    \/ Discard
    \/ handleProcessRecoveredDataApi
    \/ RecoverReadClears

SpecApiClears == InitLive /\ [][NextApiClears]_vars

\* One start invocation at a time and file transcription, on a store that
\* is empty at first: a recording is made and stopped, a file is chosen.
NextMixed ==
    \/ RequestStop
    \/ ToggleStart(SoloSessions)
    \/ CommitStartClear
    \/ \E s \in Sessions : GumResolve(s)
    \/ \E s \in Sessions : GumReject(s)
    \/ \E s \in Sessions : DataAvailable(s)
    \/ CommitAdd
    \/ \E s \in Sessions, nonEmpty \in BOOLEAN : StopTask(s, nonEmpty)
    \/ \E s \in Sessions, e \in Events, text \in OneText :
          TranscribeReturn(s, e, text)
    \/ \E s \in Sessions, e \in Events : TranscribeFail(s, e)
    \/ handleConfirmStop
    \/ CancelStop
    \/ CommitPlain
    \/ checkForCrashedData
    \/ handleFileChange
    \/ \E d \in LiveDurations : FileDecoded(d)
    \/ FileDecodeFail
    \/ \E text \in OneText : FileWindowReturn(text)
    \/ FileDelayDone
    \/ FileWindowFail

SpecMixed == InitDouble /\ [][NextMixed]_vars

\* The same as SpecFaults, with the stream of the mount effect.
NextStreams ==
    \/ NextFaults
    \/ getAudioDevicesResolve
    \/ getAudioDevicesReject

SpecStreams == InitDouble /\ [][NextStreams]_vars
\* ------------------------------------------------------------ properties
\* The step in which checkForCrashedData reads the store.
DetectStep == checkPc = "pending" /\ checkPc' = "done"

\* The step of the discard button.
DiscardStep ==
    /\ recoveryInfo.show /\ ~recoveryInfo'.show
    /\ crashes' = crashes /\ recov' = recov

\* C1: when the page ends during a recording after N >= 1 addAudioChunk
\* calls are complete and without a clean stop, the next checkForCrashedData
\* sets recoveryInfo to {show: true, chunkCount: N}; discard then clears the
\* store, appends no transcript entry and issues no transcription call.
C1_CrashRecovery ==
    [][ /\ (DetectStep /\ hist.boot.expect >= 1)
           => recoveryInfo' = [show |-> TRUE, chunkCount |-> hist.boot.expect]
        /\ DiscardStep
           => /\ transcript' = transcript
              /\ da' = da /\ file' = file /\ api' = api
              /\ txQueue' = Append(txQueue, Tx("clear", NoChunk, NoWaiter))
      ]_vars

\* The sessions that have a fragment in the store.
SessionsInStore == {store[i].sess : i \in DOMAIN store}

\* The step that appends the first fragment of a session to the store.
FirstAppendStep ==
    /\ txQueue # <<>>
    /\ Head(txQueue).op = "add"
    /\ Head(txQueue).chunk.idx = 1
    /\ store' = Append(store, Head(txQueue).chunk)

\* C2: the store holds fragments of at most one session in every reachable
\* state, and it is empty just before the first fragment of a session is
\* appended, for every interleaving of the handlers.
C2_OneSessionInStore ==
    /\ [](Cardinality(SessionsInStore) <= 1)
    /\ [][FirstAppendStep => store = <<>>]_vars

StopComplete ==
    /\ txQueue = <<>>
    /\ \A s \in Sessions : ~recorders[s].stopTask

\* C4: after the stop is confirmed and the stop event and the transactions
\* it caused are complete, the store is empty.
C4_CleanStopEmptiesStore ==
    (hist.cleanStopped /\ StopComplete) => store = <<>>

\* C5: in the backend variant, after the stop is confirmed and the
\* transcription it caused has returned, the store is empty.
C5_CleanStopEmptiesStoreApi ==
    (hist.cleanStopped /\ hist.stopTranscribed /\ StopComplete)
        => store = <<>>

\* A transcription call of session s is in flight.
InFlight(s) == \E e \in Events : da[s][e] = "call"

\* C6: the fragments of a session are not removed from the store while a
\* transcription call for that session is in flight.
C6_NoClearInFlight ==
    [][ \A s \in Sessions :
          (InFlight(s) /\ s \in SessionsInStore) => s \in SessionsInStore'
      ]_vars

\* The runs of the two chunked loops.
Runs == {hist.fileRun, hist.recovRun}

\* A window call of run r fails in this step.
FailStep(r) == hist[r].failedAt < 0 /\ hist'[r].failedAt >= 0

\* C7: when the call of a window fails, an error entry with the window's
\* start offset is appended and the loop goes on with the next window.
C7_PartialFailureIsolation ==
    [][ \A r \in {"fileRun", "recovRun"} :
          FailStep(r) =>
            /\ Len(transcript') = Len(transcript) + 1
            /\ transcript'[Len(transcript')].time = hist'[r].failedAt
            /\ (hist'[r].failedAt + chunkSizeInSeconds < hist'[r].duration
                  => ~hist'[r].ended)
      ]_vars

\* The recorders that are recording.
Recording == {s \in Sessions : recorders[s].state = "recording"}

\* toggleRecording is invoked while isRecording is true.
ToggleWhileRecordingStep ==
    isRecording /\ ~showStopConfirm /\ showStopConfirm'

\* C8: toggleRecording while isRecording is true starts nothing and leaves
\* recorder, accumulator, store, transcript, summary and start timestamp as
\* they are; at most one session is recording at any time.
C8_SingleActiveSession ==
    /\ [](Cardinality(Recording) <= 1)
    /\ [][ToggleWhileRecordingStep =>
            UNCHANGED <<starts, recorders, mediaRecorderRef, audioChunksRef,
                        store, txQueue, transcript, summary,
                        recordingStartTimeRef, nextSess>>]_vars

\* ceil(d / w)
CeilDiv(d, w) == (d + w - 1) \div w

\* The windows of a duration: k = 1 .. ceil(d / w), from (k - 1) w to
\* min(k w, d).
Coverage(d, w) ==
    [k \in 1..CeilDiv(d, w) |->
        [start |-> (k - 1) * w,
         end   |-> IF k * w < d THEN k * w ELSE d]]

\* C9: a chunked loop over a duration D issues exactly ceil(D / 60) windows
\* with starts 0, 60, 120, ... and ends min(start + 60, D); none for D = 0.
C9_WindowCoverage ==
    \A run \in Runs :
        (run.ended /\ run.duration >= 0)
            => run.windows = Coverage(run.duration, chunkSizeInSeconds)

\* The positions at which a line that is not blank has its first character
\* that is not blank.
LineStarts(text) ==
    {p \in 1..Len(text) :
        /\ ~Blank(text[p])
        /\ \A q \in 1..(p - 1) :
              (\A r \in q..(p - 1) : text[r] # "\n") => Blank(text[q])}

\* The line around position p.
LineAt(text, p) ==
    LET before == {q \in 1..(p - 1) : text[q] = "\n"}
        after  == {q \in (p + 1)..Len(text) : text[q] = "\n"}
        lo == IF before = {} THEN 1
              ELSE 1 + CHOOSE q \in before : \A x \in before : x <= q
        hi == IF after = {} THEN Len(text)
              ELSE (CHOOSE q \in after : \A x \in after : q <= x) - 1
    IN  SubSeq(text, lo, hi)

\* The k-th line that is not blank.
NthLine(text, k) ==
    LET p == CHOOSE x \in LineStarts(text) :
                 Cardinality({y \in LineStarts(text) : y < x}) = k - 1
    IN  LineAt(text, p)

\* The new transcript pairs the lines of the text with the original times.
Paired(new, original, text) ==
    /\ Len(new) = Cardinality(LineStarts(text))
    /\ \A k \in 1..Len(new) :
          /\ new[k].text = NthLine(text, k)
          /\ ~TrimEmpty(new[k].text)
          /\ new[k].time = IF k <= Len(original) THEN original[k].time
                           ELSE original[Len(original)].time

\* C10: a refine result of m lines that are not blank, for n >= 1 original
\* entries, gives m entries; entry i has line i as text and the time of
\* original entry i, or of the last original entry when i is past the end;
\* blank lines give no entry.
C10_RefinePairing ==
    [][ hist'.refined.n # hist.refined.n =>
          \E i \in DOMAIN refine :
              /\ refine' = Remove(refine, i)
              /\ Len(refine[i]) >= 1
              /\ Paired(transcript', refine[i], hist'.refined.text)
      ]_vars

\* A refine call has returned three lines for two original entries: the
\* third entry repeats the time of the second.
C10_Witness ==
    /\ hist.refined.n = 1
    /\ Cardinality(LineStarts(hist.refined.text)) = 3
    /\ Len(transcript) = 3
    /\ transcript[1].time = 0
    /\ transcript[2].time = chunkSizeInSeconds
    /\ transcript[3].time = chunkSizeInSeconds

\* The content of the store once the transactions of q are complete.
RECURSIVE Settled(_, _)
Settled(s, q) ==
    IF q = <<>> THEN s ELSE Settled(ApplyTx(s, Head(q)), Tail(q))

\* Fragments of one session follow each other in the order of emission,
\* none twice and none left out in between.
InIssueOrder(chunks) ==
    \A i, j \in DOMAIN chunks :
        (i < j /\ chunks[i].sess = chunks[j].sess
              /\ \A m \in (i + 1)..(j - 1) : chunks[m].sess # chunks[i].sess)
            => chunks[j].idx = chunks[i].idx + 1

\* The step in which a getAllAudioChunks transaction is complete.
ReadStep ==
    /\ txQueue # <<>>
    /\ Head(txQueue).op = "getAll"
    /\ txQueue' = Tail(txQueue) \/ Len(txQueue') >= Len(txQueue)

\* C11: the fragments of addAudioChunk calls with no clearAudioChunks in
\* between are read back by getAllAudioChunks in the order of the calls,
\* also for calls nobody awaits; getAllAudioChunks leaves the store as it is.
C11_StoreOrdering ==
    /\ [](InIssueOrder(store) /\ InIssueOrder(Settled(store, txQueue)))
    /\ [][(ReadStep /\ crashes' = crashes) => store' = store]_vars

\* After a crash the detection has read two fragments, one of a timeslice
\* and the final one, in the order of their calls.
C11_Witness ==
    /\ crashes = 1
    /\ recoveryInfo = [show |-> TRUE, chunkCount |-> 2]
    /\ store = <<[sess |-> 1, idx |-> 1], [sess |-> 1, idx |-> 2]>>

\* The first k fragments of session s, in the order of emission.
Fragments(s, k) == [i \in 1..k |-> [sess |-> s, idx |-> i]]

\* The stop event of recorder s fires in this step.
StopEventStep(s) ==
    recorders[s].stopTask /\ ~recorders'[s].stopTask /\ crashes' = crashes

\* The fragments of non-zero size recorder s has emitted when its stop
\* event fires: the timeslice ones and the final one, when it has a size.
Emitted(s) ==
    recorders[s].ticks
        + (IF da'[s][recorders[s].ticks + 1] = "add" THEN 1 ELSE 0)

\* C12: when the stop event of a session fires, the accumulator that goes
\* into the download blob holds exactly the fragments of non-zero size the
\* session has emitted, in the order of emission.
C12_AccumulatorAtStop ==
    [][ \A s \in Sessions :
          StopEventStep(s) => audioChunksRef' = Fragments(s, Emitted(s))
      ]_vars

\* The transcribeAndIdentifySpeakers calls in flight.
CallsInFlight == {<<s, e>> \in Sessions \X Events : da[s][e] = "call"}

\* C13: at most one call to transcribeAndIdentifySpeakers is in flight; the
\* handler of a tick does not issue its call before the call of the tick
\* before it has returned or failed.
C13_SequentialCalls == Cardinality(CallsInFlight) <= 1

\* The chunked calls (transcribeFileRaw) in flight.
ChunkedCallsInFlight ==
    (IF file.pc = "call" THEN {"file"} ELSE {})
        \cup (IF recov.pc = "call" THEN {"recov"} ELSE {})

\* The windows of a run start at strictly increasing offsets.
IncreasingStarts(run) ==
    \A i, j \in DOMAIN run.windows :
        i < j => run.windows[i].start < run.windows[j].start

\* C14: the windows of a chunked run are sent in strictly increasing order
\* of their start offsets, one after the return or failure of the other,
\* and at most one chunked call is in flight.
C14_SequentialWindows ==
    /\ \A run \in Runs : IncreasingStarts(run)
    /\ Cardinality(ChunkedCallsInFlight) <= 1

\* The confirmation is closed and no recorder changes in this step.
CancelStep ==
    /\ showStopConfirm /\ ~showStopConfirm'
    /\ recorders' = recorders
    /\ crashes' = crashes

\* A recorder that is recording is halted in this step.
HaltStep ==
    /\ \E s \in Sessions :
          recorders[s].state = "recording" /\ recorders'[s].state # "recording"
    /\ crashes' = crashes

\* C15: toggleRecording while recording only sets showStopConfirm, the
\* recorder keeps running; the cancel button clears the flag and leaves
\* isRecording true and recorder, accumulator, store and transcript as they
\* are; only the confirm button halts the recorder.
C15_TwoPhaseStop ==
    [][ /\ ToggleWhileRecordingStep
           => /\ isRecording'
              /\ UNCHANGED <<recorders, mediaRecorderRef, audioChunksRef,
                             store, txQueue, transcript>>
        /\ CancelStep
           => /\ isRecording /\ isRecording'
              /\ UNCHANGED <<mediaRecorderRef, audioChunksRef, store, txQueue,
                             transcript>>
        /\ HaltStep
           => showStopConfirm /\ ~showStopConfirm' /\ ~isRecording'
      ]_vars

\* The confirmation is pending, the recorder runs and the fragment of a
\* timeslice is on its way into the store.
C15_Witness ==
    /\ showStopConfirm
    /\ isRecording
    /\ \E s \in Sessions :
          /\ recorders[s].state = "recording"
          /\ da[s][1] = "add"
          /\ audioChunksRef = Fragments(s, 1)

\* The stop that was confirmed has had its stop event, no start since.
StopEventFired ==
    /\ hist.cleanStopped
    /\ mediaRecorderRef # 0
    /\ recorders[mediaRecorderRef].state = "inactive"
    /\ ~recorders[mediaRecorderRef].stopTask

\* A fragment is pushed to the accumulator or handed to addAudioChunk in
\* this step.
FragmentStep ==
    \/ Len(audioChunksRef') > Len(audioChunksRef)
    \/ \E i \in DOMAIN txQueue' :
          /\ txQueue'[i].op = "add"
          /\ \A j \in DOMAIN txQueue : txQueue[j] # txQueue'[i]

\* C16: the confirm button makes isRecording and showStopConfirm false;
\* the stop event of the halted recorder comes and ends the tracks of its
\* stream; after that stop event no fragment is pushed to the accumulator
\* or handed to the store; the halt and the stop event leave a call to
\* transcribeAndIdentifySpeakers in flight, and its return appends the new
\* text to the transcript.
C16_AfterConfirmStop ==
    /\ [][HaltStep => ~isRecording' /\ ~showStopConfirm']_vars
    /\ \A s \in Sessions :
          recorders[s].stopTask
              ~> (~recorders[s].stopTask /\ ~recorders[s].tracksLive)
    /\ [][(StopEventFired /\ crashes' = crashes) => ~FragmentStep]_vars
    /\ [][\A s \in Sessions, e \in Events :
            /\ (da[s][e] = "call" /\ (HaltStep \/ \E r \in Sessions : StopEventStep(r)))
                  => da'[s][e] = "call"
            /\ (da[s][e] = "call" /\ da'[s][e] = "idle" /\ crashes' = crashes)
                  => Len(transcript') >= Len(transcript)]_vars

\* C17: isRecording is true only while a recorder is recording or the stop
\* event of a recorder that has stopped is still to come: a start that
\* fails and a recorder that the device stops leave isRecording false.
C17_DeviceFailureIdle ==
    isRecording =>
        \E s \in Sessions :
            recorders[s].state = "recording" \/ recorders[s].stopTask

\* The add at the head of the queue leaves it and the store does not get
\* its fragment.
AddFailStep ==
    /\ txQueue # <<>>
    /\ Head(txQueue).op = "add"
    /\ txQueue' = Tail(txQueue)
    /\ store' = store
    /\ crashes' = crashes

\* The fragments handed to addAudioChunk in this step.
AddsIssued ==
    {txQueue'[i].chunk : i \in {j \in DOMAIN txQueue' :
        /\ txQueue'[j].op = "add"
        /\ \A k \in DOMAIN txQueue : txQueue[k] # txQueue'[j]}}

\* C18: a fragment handed to addAudioChunk by ondataavailable is in the
\* accumulator by then; when the add fails, isRecording, the recorders and
\* the accumulator stay as they are, and a recorder that is recording goes
\* on to emit its fragments.
C18_AddFailKeepsRecording ==
    /\ [][\A c \in AddsIssued :
            \E i \in DOMAIN audioChunksRef' : audioChunksRef'[i] = c]_vars
    /\ [][AddFailStep =>
            UNCHANGED <<isRecording, recorders, mediaRecorderRef,
                        audioChunksRef>>]_vars
    /\ [](\A s \in Sessions :
            (/\ hist.addFailed.sess = s
             /\ recorders[s].state = "recording"
             /\ recorders[s].after = {}
             /\ recorders[s].ticks < MaxChunks)
                => ENABLED DataAvailable(s))

\* The add of the first fragment has failed and the recorder records on,
\* the fragment in the accumulator.
C18_Witness ==
    /\ hist.addFailed = [sess |-> 1, idx |-> 1]
    /\ isRecording
    /\ recorders[1].state = "recording"
    /\ audioChunksRef = Fragments(1, 1)
    /\ store = <<>>

\* The start invocation s ends in this step and has made no recorder.
FailedStartStep(s) ==
    /\ starts[s] = "gum" /\ starts'[s] = "none"
    /\ recorders'[s] = recorders[s]
    /\ crashes' = crashes

\* C19: when getUserMedia rejects in toggleRecording, the object store, the
\* accumulator, the transcript and the summary are what they were when
\* toggleRecording was called.
C19_FailedStartLeavesState ==
    [][\A s \in Sessions :
        FailedStartStep(s) =>
            /\ store' = hist.prior[s].store
            /\ audioChunksRef' = hist.prior[s].accumulator
            /\ transcript' = hist.prior[s].transcript
            /\ summary' = hist.prior[s].summary]_vars

\* A call of generateSummary ends in this step with the dialog of its
\* catch block.
SummaryFailStep ==
    /\ isLoadingAI /\ ~isLoadingAI'
    /\ modalInfo'.message = "summaryError"
    /\ crashes' = crashes

\* C20: when the external call of generateSummary fails, the summary is
\* what it was when generateSummary was called, no step of generateSummary
\* changes the transcript, and isLoadingAI is false again.
C20_FailedSummaryLeavesState ==
    /\ [][SummaryFailStep =>
            /\ summary' = hist.priorSummary
            /\ transcript' = transcript
            /\ ~isLoadingAI']_vars
    /\ [][(~isLoadingAI /\ isLoadingAI') => transcript' = transcript]_vars

\* The refine call i ends in this step and has not returned.
RefineFailStep(i) ==
    /\ i \in DOMAIN refine
    /\ refine' = Remove(refine, i)
    /\ hist'.refined = hist.refined
    /\ crashes' = crashes

\* C21: when the external call of handleRefineTranscript fails, the
\* transcript is the sequence handleRefineTranscript was called with, the
\* dialog of the failure is shown and isTranscribing is false; a call is
\* issued only for a transcript that is not empty.
C21_FailedRefineLeavesTranscript ==
    /\ [][\A i \in 1..MaxRefines :
            RefineFailStep(i) =>
                /\ transcript' = transcript
                /\ transcript' = refine[i]
                /\ modalInfo' = [show |-> TRUE, message |-> "refineError"]
                /\ ~isTranscribing']_vars
    /\ [][Len(refine') > Len(refine) => transcript # <<>>]_vars

\* A refine call on the two entries of a file run has failed.
C21_Witness ==
    /\ refines = 1
    /\ refine = <<>>
    /\ modalInfo = [show |-> TRUE, message |-> "refineError"]
    /\ ~isTranscribing
    /\ Len(transcript) = 2
    /\ hist.refined = NoRefined

\* The texts of the entries of a transcript, one after the other; the
\* entries of failed ticks are left out.
RECURSIVE Shown(_)
Shown(entries) ==
    IF entries = <<>> THEN <<>>
    ELSE (IF Head(entries).text = ErrorText THEN <<>> ELSE Head(entries).text)
             \o Shown(Tail(entries))

NotBlankChar(c) == ~Blank(c)

\* Text a is text b with nothing but blanks left out.
SameButBlanks(a, b) ==
    /\ SelectSeq(a, NotBlankChar) = SelectSeq(b, NotBlankChar)
    /\ Len(a) <= Len(b)

\* The call of tick e of session s returns in this step.
TickReturnStep(s, e) ==
    /\ da[s][e] = "call" /\ da'[s][e] = "idle"
    /\ crashes' = crashes
    /\ ~(/\ lastTranscriptTextRef' = lastTranscriptTextRef
          /\ Len(transcript') = Len(transcript) + 1
          /\ transcript'[Len(transcript')].text = ErrorText)

\* C22: when the call of a tick returns, the last known transcript becomes
\* the returned one and the entry appended holds the characters of the
\* returned text past the length of the last known one (no entry when they
\* are blank); while every returned text begins with the one before it,
\* the texts of the entries shown, one after the other, are the last
\* returned text but for blank deltas, no character twice.
C22_StreamingDelta ==
    /\ [][\A s \in Sessions, e \in Events :
            TickReturnStep(s, e) =>
                LET delta == SubSeq(lastTranscriptTextRef',
                                    Len(lastTranscriptTextRef) + 1,
                                    Len(lastTranscriptTextRef')) IN
                  IF TrimEmpty(delta) THEN transcript' = transcript
                  ELSE /\ Len(transcript') = Len(transcript) + 1
                       /\ SubSeq(transcript', 1, Len(transcript)) = transcript
                       /\ transcript'[Len(transcript')].text = delta]_vars
    /\ [](hist.prefixOk =>
            SameButBlanks(Shown(transcript), lastTranscriptTextRef))

\* Two ticks have returned "a " and "a b": the entries are "a " and "b".
C22_Witness ==
    /\ hist.prefixOk
    /\ lastTranscriptTextRef = <<"a", " ", "b">>
    /\ Len(transcript) = 2
    /\ transcript[1].text = <<"a", " ">>
    /\ transcript[2].text = <<"b">>

\* The last window a run has sent.
LastWindow(run) == run.windows[Len(run.windows)]

\* The call of the chunked loop `loop` returns in this step: the loop goes
\* on or ends and the transcript gets an entry.
WindowReturnStep(loop) ==
    /\ loop.pc = "call"
    /\ loop' # loop
    /\ Len(transcript') = Len(transcript) + 1
    /\ crashes' = crashes

\* C23: the entry made of the text of a window, in a file run and in a
\* recovery run, has the start offset of that window as its time.
C23_EntryTimeIsWindowStart ==
    [][ /\ WindowReturnStep(file)
           => transcript'[Len(transcript')].time = LastWindow(hist.fileRun).start
        /\ WindowReturnStep(recov)
           => transcript'[Len(transcript')].time = LastWindow(hist.recovRun).start
      ]_vars

\* The run r of a chunked loop ends in this step, no call of it has failed
\* and the audio was decoded.
RunSucceedsStep(r) ==
    /\ hist'[r] # hist[r]
    /\ hist'[r].ended
    /\ hist'[r].failedAt < 0
    /\ hist'[r].duration >= 0

\* C24: at the end of a chunked run whose calls have all returned, the
\* transcript has one entry per window of the run, in the order of the
\* windows, and no entry has an empty or blank text: the placeholder
\* stands for a text that came back empty.
C24_OneEntryPerWindow ==
    [][\A r \in {"fileRun", "recovRun"} :
        RunSucceedsStep(r) =>
            /\ Len(transcript') = Len(hist'[r].windows)
            /\ \A i, j \in DOMAIN transcript' :
                  i < j => transcript'[i].time < transcript'[j].time
            /\ \A i \in DOMAIN transcript' : ~TrimEmpty(transcript'[i].text)
      ]_vars

\* C25: in every reachable state the entries of the transcript follow each
\* other at times that do not decrease.
C25_TranscriptOrdered ==
    \A i, j \in DOMAIN transcript :
        i < j => transcript[i].time <= transcript[j].time

\* C26: an indicator that is on goes off again, when every transaction
\* and every external call comes to its end: isTranscribing and isLoadingAI
\* are false again and again, and loadingMessage is the ready message again
\* and again, on the paths of file transcription, recovery, refinement,
\* summary and the ticks of a recording, where they return and where they
\* fail.
C26_IndicatorsReturn ==
    /\ []<>(~isTranscribing)
    /\ []<>(~isLoadingAI)
    /\ []<>(loadingMessage = ReadyMessage)

\* The summary of the transcript of a file run has failed while the call
\* of a tick of the recording is in flight: isLoadingAI is false again.
C26_Witness ==
    /\ isRecording
    /\ isTranscribing
    /\ ~isLoadingAI
    /\ modalInfo = [show |-> TRUE, message |-> "summaryError"]
    /\ loadingMessage = ReadyMessage
    /\ \E s \in Sessions : da[s][1] = "call"

\* The start invocation s ends in this step without a recorder that
\* records.
StartFailsStep(s) ==
    /\ starts[s] = "gum" /\ starts'[s] = "none"
    /\ recorders'[s].state # "recording"
    /\ crashes' = crashes

\* A dialog is shown after this step and it is the one of this step.
Notified == modalInfo'.show /\ modalInfo' # modalInfo

\* C27: every operation that fails ends with a dialog for it: the start of
\* a recording, the append of a fragment to the store, a window or the
\* decoding of a file run and of a recovery run, refine and summary.
C27_FailuresNotified ==
    [][ /\ \A s \in Sessions : StartFailsStep(s) => Notified
        /\ AddFailStep => Notified
        /\ FailStep("fileRun") => modalInfo'.message = "fileError"
        /\ FailStep("recovRun") => modalInfo'.message = "recoverError"
        /\ \A i \in 1..MaxRefines :
              RefineFailStep(i) => modalInfo'.message = "refineError"
        /\ SummaryFailStep => modalInfo'.show
      ]_vars

\* The clear of a start invocation has failed in this step.
ClearFailStep(s) ==
    /\ starts[s] = "clear"
    /\ starts'[s] = "none"
    /\ crashes' = crashes

\* C28: when clearAudioChunks fails during toggleRecording, the outcome
\* reported is not the device-denied outcome: the microphone label does
\* not say that access to the microphone was denied.
C28_StorageFailureDistinct ==
    [][\A s \in Sessions :
          ClearFailStep(s) => activeMicrophone' # "denied"]_vars

\* The call of tick e of session s ends in this step without a return.
TickFailStep(s, e) ==
    /\ da[s][e] = "call" /\ da'[s][e] = "idle"
    /\ crashes' = crashes
    /\ ~ \E text \in StreamTexts : TranscribeReturn(s, e, text)

\* C29: when the call of a streaming tick fails, the transcript gets one
\* entry, the error entry at the elapsed time of that moment; the last
\* known transcript and isRecording are as before, and so are the recorder,
\* the fragments collected and the start invocations, on which the
\* dispatch of later ticks depends.
C29_TickFailureIsolated ==
    [][\A s \in Sessions, e \in Events :
          TickFailStep(s, e) =>
             /\ transcript' = Append(transcript,
                    Entry(now - recordingStartTimeRef, ErrorText))
             /\ lastTranscriptTextRef' = lastTranscriptTextRef
             /\ isRecording' = isRecording
             /\ recorders' = recorders
             /\ audioChunksRef' = audioChunksRef
             /\ mediaRecorderRef' = mediaRecorderRef
             /\ starts' = starts
             /\ txQueue' = txQueue]_vars

\* The call of the first tick of a recording has failed, nothing had been
\* returned before, and the next event of the recorder has its call in flight.
C29_Witness ==
    \E s \in Sessions :
       /\ da[s][1] = "idle"
       /\ da[s][2] = "call"
       /\ transcript = <<Entry(timeslice, ErrorText)>>
       /\ lastTranscriptTextRef = <<>>

\* Call i of transcribeAudioWithApi ends in this step without an answer.
ApiFailStep(i) ==
    /\ i \in DOMAIN api
    /\ api' = Remove(api, i)
    /\ crashes' = crashes
    /\ ~ \E text \in OneText : ApiReturn(i, text) \/ ApiReturnClears(i, text)

\* C30: when a call of transcribeAudioWithApi fails, the transcript holds
\* an error entry afterwards, a dialog other than the one of success is
\* shown and isLoadingAI is false.
C30_ApiFailureLeavesPlaceholder ==
    [][\A i \in 1..(MaxSessions + 1) :
          ApiFailStep(i) =>
             /\ \E k \in DOMAIN transcript' : transcript'[k].text = ErrorText
             /\ modalInfo'.show
             /\ modalInfo'.message # "apiDone"
             /\ ~isLoadingAI']_vars

\* The return of a window's call in the loop `loop` of run `run` is paced:
\* the step issues no call, the loop waits in the delay when a window is
\* left and only then.
Paced(loop, run) ==
    WindowReturnStep(loop) =>
       /\ Len(run'.windows) = Len(run.windows)
       /\ loop'.pc = "delay"
             <=> LoopContinues(loop.currentTime + chunkSizeInSeconds,
                               loop.duration)

\* C31: in a file run and in a recovery run a pacing delay lies between the
\* return of a window's call and the issue of the call of the next window,
\* and no delay follows the last window.
C31_PacingBetweenWindows ==
    [][Paced(file, hist.fileRun) /\ Paced(recov, hist.recovRun)]_vars

\* The call of tick e of session s ends in this step and the transcript
\* gets an entry.
TickAppendStep(s, e) ==
    /\ da[s][e] = "call" /\ da'[s][e] = "idle"
    /\ crashes' = crashes
    /\ Len(transcript') = Len(transcript) + 1

\* C32: a tick's call appends its entry only to the transcript of its own
\* session: the transcript has not been emptied by a later start or by the
\* choice of a file since the session was started.
C32_NoCrossSessionEntry ==
    [][\A s \in Sessions, e \in Events :
          TickAppendStep(s, e) => hist.owner = s]_vars

\* The sessions that have a fragment in the accumulator.
SessionsInAccumulator ==
    {audioChunksRef[i].sess : i \in DOMAIN audioChunksRef}

\* C33: start invocations that overlap leave at most one recorder
\* recording, every recorder that records is the one mediaRecorderRef
\* holds, the one handleConfirmStop stops and whose stop event ends the
\* tracks of its stream, and the accumulator and the store hold fragments
\* of at most one session.
C33_NoDoubleStart ==
    /\ Cardinality(Recording) <= 1
    /\ \A s \in Recording : mediaRecorderRef = s
    /\ Cardinality(SessionsInAccumulator) <= 1
    /\ Cardinality(SessionsInStore) <= 1

\* The sessions recorded since the page was started.
CurrentRun == {s \in Sessions : recorders[s].state # "none"}

\* The store st holds no fragment of a session of this run of the page.
OfEarlierRun(st) ==
    \A i \in DOMAIN st : st[i].sess \notin CurrentRun

\* getAllAudioChunks of the resume returns in this step.
ResumeReadStep == recov.pc = "getAll" /\ recov'.pc = "decode"

\* handleProcessRecoveredData ends in this step: its finally block calls
\* clearAudioChunks.
ResumeEndStep ==
    /\ recov.pc \in {"decode", "call"}
    /\ recov' = NoLoop
    /\ crashes' = crashes

\* C34: the fragments checkForCrashedData counts, the fragments the resume
\* reads and the fragments the clear of the discard button and of the end
\* of the resume removes are fragments of an earlier run of the page, none
\* of a session recorded in this run.
C34_OfferIsOfEarlierRun ==
    [][ /\ DetectStep => OfEarlierRun(store)
        /\ ResumeReadStep => OfEarlierRun(store)
        /\ (DiscardStep \/ ResumeEndStep)
             => OfEarlierRun(Settled(store, txQueue))
      ]_vars

\* The store holds fragments of an earlier run of the page and this step
\* removes them.
OrphansRemovedStep ==
    /\ \E i \in DOMAIN store : store[i].sess \notin CurrentRun
    /\ store' = <<>>
    /\ crashes' = crashes

\* C35: the fragments an earlier run of the page has left are removed only
\* after the user has closed the recovery offer with resume or discard:
\* not while checkForCrashedData has yet to read them and not while the
\* offer is shown.
C35_OrphansKeptUntilDecision ==
    [][OrphansRemovedStep => (checkPc = "done" /\ ~recoveryInfo.show)]_vars

\* C36: when the only text returned so far was empty, so that the
\* transcript is the one placeholder entry, and the call of a tick returns
\* a text that is not blank, the entry appended is that text, every
\* character of it.
C36_PlaceholderEatsNothing ==
    [][\A s \in Sessions, e \in Events :
          ( /\ TickReturnStep(s, e)
            /\ lastTranscriptTextRef = PlaceholderText
            /\ transcript = <<Entry(transcript[1].time, PlaceholderText)>>
            /\ lastTranscriptTextRef' # PlaceholderText )
          => /\ Len(transcript') = 2
             /\ transcript'[2].text = lastTranscriptTextRef'
      ]_vars

\* A call of a streaming tick, of a file window, of a recovery window or a
\* refine call is in flight.
AnyCallInFlight ==
    \/ CallsInFlight # {}
    \/ file.pc = "call"
    \/ recov.pc = "call"
    \/ refine # <<>>

\* C37: isTranscribing is true in every state in which a transcription or
\* refine call is in flight.
C37_TranscribingIsAccurate == AnyCallInFlight => isTranscribing

\* No start invocation is under way, no recorder records and no stop
\* event is still to come.
AllSessionsEnded ==
    /\ Recording = {}
    /\ \A s \in Sessions : starts[s] = "none" /\ ~recorders[s].stopTask

\* A stream that getUserMedia has handed out has a track that is not
\* stopped.
StreamOpen ==
    \/ startupStream = "live"
    \/ \E s \in Sessions : recorders[s].tracksLive

\* C38: when no session records and every stop event has been handled, no
\* stream acquired by getAudioDevices or by toggleRecording is open.
C38_StreamsReleased == AllSessionsEnded => ~StreamOpen

\* C39: the stop confirmation is open only while isRecording is true, and
\* the confirm button and the cancel button both leave it closed.
C39_ConfirmImpliesRecording ==
    /\ [](showStopConfirm => isRecording)
    /\ [][(handleConfirmStop \/ CancelStop) => ~showStopConfirm']_vars

\* The stop was asked for and confirmed: the confirmation is closed,
\* isRecording is false and the stop event of the recorder is to come.
C39_Witness ==
    /\ ~showStopConfirm
    /\ ~isRecording
    /\ hist.cleanStopped
    /\ mediaRecorderRef # 0
    /\ recorders[mediaRecorderRef].stopTask

====
